---- MODULE Spec2Model ----
(***************************************************************************)
(* Handlers of the Solvook Slack bot (src/src/listeners).  Every handler   *)
(* is an async function: it runs from one await to the next, and each      *)
(* awaited call to the platform either resolves or rejects.  An action of  *)
(* this module is one such segment of one handler invocation.              *)
(*                                                                         *)
(* Strings that the code searches, lower-cases or interpolates are         *)
(* sequences of one-character strings.  A glyph outside ASCII is written   *)
(* as a single element named by its Slack short code (":wave:"), so that   *)
(* it can never take part in a keyword match; so is the backquote, which   *)
(* the lexer of TLA+ strings does not accept (":backquote:").              *)
(***************************************************************************)
EXTENDS Integers, Sequences, FiniteSets, TLC

(***************************************************************************)
(* Bounds of the model.                                                    *)
(***************************************************************************)
\* A message text is at most MaxWords vocabulary words joined by blanks.
MaxWords == 2
\* pingCommand measures at most MaxAckMs milliseconds around ack().
MaxAckMs == 1
\* conversations.members returns at most MaxMembers members.
MaxMembers == 1

(***************************************************************************)
(* JavaScript string operations used by the handlers.                      *)
(***************************************************************************)
UpperLetters ==
    <<"A", "B", "C", "D", "E", "F", "G", "H", "I", "J", "K", "L", "M",
      "N", "O", "P", "Q", "R", "S", "T", "U", "V", "W", "X", "Y", "Z">>

LowerLetters ==
    <<"a", "b", "c", "d", "e", "f", "g", "h", "i", "j", "k", "l", "m",
      "n", "o", "p", "q", "r", "s", "t", "u", "v", "w", "x", "y", "z">>

\* String.prototype.toLowerCase on one character.
LowerChar(c) ==
    IF \E k \in 1..Len(UpperLetters) : UpperLetters[k] = c
    THEN LowerLetters[CHOOSE k \in 1..Len(UpperLetters) : UpperLetters[k] = c]
    ELSE c

\* String.prototype.toLowerCase.
ToLowerCase(s) ==
    [k \in 1..Len(s) |-> LowerChar(s[k])]

\* String.prototype.includes: sub occurs in s as a contiguous substring.
Includes(s, sub) ==
    \E k \in 0..(Len(s) - Len(sub)) : SubSeq(s, k + 1, k + Len(sub)) = sub

DigitChars ==
    <<"0", "1", "2", "3", "4", "5", "6", "7", "8", "9">>

\* Template interpolation of a non-negative number: its decimal digits.
RECURSIVE NumToString(_)
NumToString(n) ==
    IF n < 10
    THEN <<DigitChars[n + 1]>>
    ELSE NumToString(n \div 10) \o <<DigitChars[(n % 10) + 1]>>

\* The empty string.
EmptyText ==
    <<>>

\* A field that is absent from a record (JavaScript undefined).
Undefined ==
    <<"undefined">>

\* JavaScript truthiness of an optional string: present and not empty.
Truthy(s) ==
    s # Undefined /\ s # EmptyText

\* a || b on optional strings.
OrElse(a, b) ==
    IF Truthy(a) THEN a ELSE b

(***************************************************************************)
(* String literals of the handlers.                                        *)
(***************************************************************************)
\* message.ts line 28: 'hello'
KwHello ==
    <<"h", "e", "l", "l", "o">>

\* message.ts line 28: 'hi'
KwHi ==
    <<"h", "i">>

\* message.ts line 33: 'help'
KwHelp ==
    <<"h", "e", "l", "p">>

\* message.ts line 42: 'how are you'
KwHowAreYou ==
    <<"h", "o", "w", " ", "a", "r", "e", " ", "y", "o", "u">>

\* message.ts line 49: 'urgent'
KwUrgent ==
    <<"u", "r", "g", "e", "n", "t">>

\* message.ts line 49: 'emergency'
KwEmergency ==
    <<"e", "m", "e", "r", "g", "e", "n", "c", "y">>

\* message.ts line 49: 'important'
KwImportant ==
    <<"i", "m", "p", "o", "r", "t", "a", "n", "t">>

\* message.ts line 49: 'asap'
KwAsap ==
    <<"a", "s", "a", "p">>

\* app-mention.ts line 17: 'status'
KwStatus ==
    <<"s", "t", "a", "t", "u", "s">>

\* app-mention.ts line 19: 'thank'
KwThank ==
    <<"t", "h", "a", "n", "k">>

\* message.ts line 30: template 'Hello <@${user}>! :wave: How can I assist you today?'
DmGreeting(user) ==
       <<"H", "e", "l", "l", "o", " ", "<", "@">>
    \o
       user
    \o
       <<">", "!", " ", ":wave:", " ", "H", "o", "w", " ", "c", "a", "n", " ", "I", " ", "a",
         "s", "s", "i", "s", "t", " ", "y", "o", "u", " ", "t", "o", "d", "a", "y", "?">>

\* message.ts lines 35-39: 'I can help you with various tasks! Try these commands:\n:bullet: :backquote:/hello:backquote: - Get a greeting\n:bullet: :backquote:/ping:backquote: - Check bot status\n:bullet: :backquote:/help:backquote: - See all commands\n\nYou can also just chat with me here in DM!'
DmHelpText ==
    <<"I", " ", "c", "a", "n", " ", "h", "e", "l", "p", " ", "y", "o", "u", " ", "w", "i", "t",
      "h", " ", "v", "a", "r", "i", "o", "u", "s", " ", "t", "a", "s", "k", "s", "!", " ", "T",
      "r", "y", " ", "t", "h", "e", "s", "e", " ", "c", "o", "m", "m", "a", "n", "d", "s", ":",
      "\n", ":bullet:", " ", ":backquote:", "/", "h", "e", "l", "l", "o", ":backquote:", " ",
      "-", " ", "G", "e", "t", " ", "a", " ", "g", "r", "e", "e", "t", "i", "n", "g", "\n",
      ":bullet:", " ", ":backquote:", "/", "p", "i", "n", "g", ":backquote:", " ", "-", " ",
      "C", "h", "e", "c", "k", " ", "b", "o", "t", " ", "s", "t", "a", "t", "u", "s", "\n",
      ":bullet:", " ", ":backquote:", "/", "h", "e", "l", "p", ":backquote:", " ", "-", " ",
      "S", "e", "e", " ", "a", "l", "l", " ", "c", "o", "m", "m", "a", "n", "d", "s", "\n",
      "\n", "Y", "o", "u", " ", "c", "a", "n", " ", "a", "l", "s", "o", " ", "j", "u", "s",
      "t", " ", "c", "h", "a", "t", " ", "w", "i", "t", "h", " ", "m", "e", " ", "h", "e", "r",
      "e", " ", "i", "n", " ", "D", "M", "!">>

\* message.ts line 44: 'I'm doing great! Thanks for asking. How can I help you today? :robot_face:'
DmHowText ==
    <<"I", "'", "m", " ", "d", "o", "i", "n", "g", " ", "g", "r", "e", "a", "t", "!", " ", "T",
      "h", "a", "n", "k", "s", " ", "f", "o", "r", " ", "a", "s", "k", "i", "n", "g", ".", " ",
      "H", "o", "w", " ", "c", "a", "n", " ", "I", " ", "h", "e", "l", "p", " ", "y", "o", "u",
      " ", "t", "o", "d", "a", "y", "?", " ", ":robot_face:">>

\* app-mention.ts lines 13-16: template 'Hi <@${user}>! I can help you with:\n:bullet: :backquote:/hello:backquote: - Get a greeting\n:bullet: :backquote:/ping:backquote: - Check my response time\n:bullet: :backquote:/help:backquote: - Show all available commands'
MentionHelp(user) ==
       <<"H", "i", " ", "<", "@">>
    \o
       user
    \o
       <<">", "!", " ", "I", " ", "c", "a", "n", " ", "h", "e", "l", "p", " ", "y", "o", "u",
         " ", "w", "i", "t", "h", ":", "\n", ":bullet:", " ", ":backquote:", "/", "h", "e",
         "l", "l", "o", ":backquote:", " ", "-", " ", "G", "e", "t", " ", "a", " ", "g", "r",
         "e", "e", "t", "i", "n", "g", "\n", ":bullet:", " ", ":backquote:", "/", "p", "i",
         "n", "g", ":backquote:", " ", "-", " ", "C", "h", "e", "c", "k", " ", "m", "y", " ",
         "r", "e", "s", "p", "o", "n", "s", "e", " ", "t", "i", "m", "e", "\n", ":bullet:",
         " ", ":backquote:", "/", "h", "e", "l", "p", ":backquote:", " ", "-", " ", "S", "h",
         "o", "w", " ", "a", "l", "l", " ", "a", "v", "a", "i", "l", "a", "b", "l", "e", " ",
         "c", "o", "m", "m", "a", "n", "d", "s">>

\* app-mention.ts line 18: template 'I'm online and ready to help, <@${user}>! :large_green_circle:'
MentionStatus(user) ==
       <<"I", "'", "m", " ", "o", "n", "l", "i", "n", "e", " ", "a", "n", "d", " ", "r", "e",
         "a", "d", "y", " ", "t", "o", " ", "h", "e", "l", "p", ",", " ", "<", "@">>
    \o
       user
    \o
       <<">", "!", " ", ":large_green_circle:">>

\* app-mention.ts line 20: template 'You're welcome, <@${user}>! Happy to help! :blush:'
MentionThanks(user) ==
       <<"Y", "o", "u", "'", "r", "e", " ", "w", "e", "l", "c", "o", "m", "e", ",", " ", "<",
         "@">>
    \o
       user
    \o
       <<">", "!", " ", "H", "a", "p", "p", "y", " ", "t", "o", " ", "h", "e", "l", "p", "!",
         " ", ":blush:">>

\* app-mention.ts lines 22-23: template 'Hi <@${user}>! You mentioned me. How can I help you today?\n_Try asking for "help" or "status"_'
MentionDefault(user) ==
       <<"H", "i", " ", "<", "@">>
    \o
       user
    \o
       <<">", "!", " ", "Y", "o", "u", " ", "m", "e", "n", "t", "i", "o", "n", "e", "d", " ",
         "m", "e", ".", " ", "H", "o", "w", " ", "c", "a", "n", " ", "I", " ", "h", "e", "l",
         "p", " ", "y", "o", "u", " ", "t", "o", "d", "a", "y", "?", "\n", "_", "T", "r", "y",
         " ", "a", "s", "k", "i", "n", "g", " ", "f", "o", "r", " ", "\"", "h", "e", "l", "p",
         "\"", " ", "o", "r", " ", "\"", "s", "t", "a", "t", "u", "s", "\"", "_">>

\* hello.ts line 16: 'there'
There ==
    <<"t", "h", "e", "r", "e">>

\* hello.ts line 24: template 'Hello *${userName}*! :wave:'
HelloGreeting(userName) ==
       <<"H", "e", "l", "l", "o", " ", "*">>
    \o
       userName
    \o
       <<"*", "!", " ", ":wave:">>

\* hello.ts line 31: template 'You called the :backquote:/hello:backquote: command from <#${channel_id}>'
HelloOrigin(channel_id) ==
       <<"Y", "o", "u", " ", "c", "a", "l", "l", "e", "d", " ", "t", "h", "e", " ",
         ":backquote:", "/", "h", "e", "l", "l", "o", ":backquote:", " ", "c", "o", "m", "m",
         "a", "n", "d", " ", "f", "r", "o", "m", " ", "<", "#">>
    \o
       channel_id
    \o
       <<">">>

\* hello.ts line 39: 'none'
NoneText ==
    <<"n", "o", "n", "e">>

\* hello.ts line 39: template '_Command text: "${text}"_'
HelloCommandText(text) ==
       <<"_", "C", "o", "m", "m", "a", "n", "d", " ", "t", "e", "x", "t", ":", " ", "\"">>
    \o
       text
    \o
       <<"\"", "_">>

\* hello.ts line 47: 'Sorry, something went wrong with the hello command.'
HelloSorry ==
    <<"S", "o", "r", "r", "y", ",", " ", "s", "o", "m", "e", "t", "h", "i", "n", "g", " ", "w",
      "e", "n", "t", " ", "w", "r", "o", "n", "g", " ", "w", "i", "t", "h", " ", "t", "h", "e",
      " ", "h", "e", "l", "l", "o", " ", "c", "o", "m", "m", "a", "n", "d", ".">>

\* help.ts line 15: 'Solvook Bot Help :books:'
HelpHeader ==
    <<"S", "o", "l", "v", "o", "o", "k", " ", "B", "o", "t", " ", "H", "e", "l", "p", " ",
      ":books:">>

\* help.ts line 22: 'Here are the available commands:'
HelpIntro ==
    <<"H", "e", "r", "e", " ", "a", "r", "e", " ", "t", "h", "e", " ", "a", "v", "a", "i", "l",
      "a", "b", "l", "e", " ", "c", "o", "m", "m", "a", "n", "d", "s", ":">>

\* help.ts lines 32-35: '*Slash Commands:*\n:bullet: :backquote:/hello:backquote: - Get a personalized greeting\n:bullet: :backquote:/ping:backquote: - Check if the bot is responsive\n:bullet: :backquote:/help:backquote: - Show this help message'
HelpCommands ==
    <<"*", "S", "l", "a", "s", "h", " ", "C", "o", "m", "m", "a", "n", "d", "s", ":", "*",
      "\n", ":bullet:", " ", ":backquote:", "/", "h", "e", "l", "l", "o", ":backquote:", " ",
      "-", " ", "G", "e", "t", " ", "a", " ", "p", "e", "r", "s", "o", "n", "a", "l", "i", "z",
      "e", "d", " ", "g", "r", "e", "e", "t", "i", "n", "g", "\n", ":bullet:", " ",
      ":backquote:", "/", "p", "i", "n", "g", ":backquote:", " ", "-", " ", "C", "h", "e", "c",
      "k", " ", "i", "f", " ", "t", "h", "e", " ", "b", "o", "t", " ", "i", "s", " ", "r", "e",
      "s", "p", "o", "n", "s", "i", "v", "e", "\n", ":bullet:", " ", ":backquote:", "/", "h",
      "e", "l", "p", ":backquote:", " ", "-", " ", "S", "h", "o", "w", " ", "t", "h", "i", "s",
      " ", "h", "e", "l", "p", " ", "m", "e", "s", "s", "a", "g", "e">>

\* help.ts lines 42-44: '*Message Events:*\n:bullet: Mention the bot to get a response\n:bullet: Direct message the bot for assistance'
HelpEvents ==
    <<"*", "M", "e", "s", "s", "a", "g", "e", " ", "E", "v", "e", "n", "t", "s", ":", "*",
      "\n", ":bullet:", " ", "M", "e", "n", "t", "i", "o", "n", " ", "t", "h", "e", " ", "b",
      "o", "t", " ", "t", "o", " ", "g", "e", "t", " ", "a", " ", "r", "e", "s", "p", "o", "n",
      "s", "e", "\n", ":bullet:", " ", "D", "i", "r", "e", "c", "t", " ", "m", "e", "s", "s",
      "a", "g", "e", " ", "t", "h", "e", " ", "b", "o", "t", " ", "f", "o", "r", " ", "a", "s",
      "s", "i", "s", "t", "a", "n", "c", "e">>

\* help.ts lines 51-53: '*Interactive Features:*\n:bullet: Click buttons in bot messages\n:bullet: Use shortcuts from the shortcuts menu'
HelpInteractive ==
    <<"*", "I", "n", "t", "e", "r", "a", "c", "t", "i", "v", "e", " ", "F", "e", "a", "t", "u",
      "r", "e", "s", ":", "*", "\n", ":bullet:", " ", "C", "l", "i", "c", "k", " ", "b", "u",
      "t", "t", "o", "n", "s", " ", "i", "n", " ", "b", "o", "t", " ", "m", "e", "s", "s", "a",
      "g", "e", "s", "\n", ":bullet:", " ", "U", "s", "e", " ", "s", "h", "o", "r", "t", "c",
      "u", "t", "s", " ", "f", "r", "o", "m", " ", "t", "h", "e", " ", "s", "h", "o", "r", "t",
      "c", "u", "t", "s", " ", "m", "e", "n", "u">>

\* help.ts line 61: '_Need more help? Contact your Slack admin._'
HelpContext ==
    <<"_", "N", "e", "e", "d", " ", "m", "o", "r", "e", " ", "h", "e", "l", "p", "?", " ", "C",
      "o", "n", "t", "a", "c", "t", " ", "y", "o", "u", "r", " ", "S", "l", "a", "c", "k", " ",
      "a", "d", "m", "i", "n", ".", "_">>

\* ping.ts line 18: ':ping_pong: *Pong!*'
PingPong ==
    <<":ping_pong:", " ", "*", "P", "o", "n", "g", "!", "*">>

\* ping.ts line 26: template 'Response time: ${ackTime}ms | User: <@${user_id}>'
PingTimeText(ackTime, user_id) ==
       <<"R", "e", "s", "p", "o", "n", "s", "e", " ", "t", "i", "m", "e", ":", " ">>
    \o
       NumToString(ackTime)
    \o
       <<"m", "s", " ", "|", " ", "U", "s", "e", "r", ":", " ", "<", "@">>
    \o
       user_id
    \o
       <<">">>

\* member-joined.ts line 16: 'New member'
NewMember ==
    <<"N", "e", "w", " ", "m", "e", "m", "b", "e", "r">>

\* member-joined.ts line 17: 'the channel'
TheChannel ==
    <<"t", "h", "e", " ", "c", "h", "a", "n", "n", "e", "l">>

\* member-joined.ts line 26: template 'Welcome to #${channelName}, *${userName}*! :tada:'
WelcomeText(channelName, userName) ==
       <<"W", "e", "l", "c", "o", "m", "e", " ", "t", "o", " ", "#">>
    \o
       channelName
    \o
       <<",", " ", "*">>
    \o
       userName
    \o
       <<"*", "!", " ", ":tada:">>

\* member-joined.ts line 33: 'We're glad to have you here. Feel free to introduce yourself and let us know if you need any help getting started!'
WelcomeBody ==
    <<"W", "e", "'", "r", "e", " ", "g", "l", "a", "d", " ", "t", "o", " ", "h", "a", "v", "e",
      " ", "y", "o", "u", " ", "h", "e", "r", "e", ".", " ", "F", "e", "e", "l", " ", "f", "r",
      "e", "e", " ", "t", "o", " ", "i", "n", "t", "r", "o", "d", "u", "c", "e", " ", "y", "o",
      "u", "r", "s", "e", "l", "f", " ", "a", "n", "d", " ", "l", "e", "t", " ", "u", "s", " ",
      "k", "n", "o", "w", " ", "i", "f", " ", "y", "o", "u", " ", "n", "e", "e", "d", " ", "a",
      "n", "y", " ", "h", "e", "l", "p", " ", "g", "e", "t", "t", "i", "n", "g", " ", "s", "t",
      "a", "r", "t", "e", "d", "!">>

\* member-joined.ts line 43: 'Get Channel Info'
BtnChannelInfo ==
    <<"G", "e", "t", " ", "C", "h", "a", "n", "n", "e", "l", " ", "I", "n", "f", "o">>

\* member-joined.ts line 52: 'View Help'
BtnViewHelp ==
    <<"V", "i", "e", "w", " ", "H", "e", "l", "p">>

\* channel-info.ts line 30: 'Channel Information :bar_chart:'
InfoHeader ==
    <<"C", "h", "a", "n", "n", "e", "l", " ", "I", "n", "f", "o", "r", "m", "a", "t", "i", "o",
      "n", " ", ":bar_chart:">>

\* channel-info.ts line 38: 'undefined'
UndefinedText ==
    <<"u", "n", "d", "e", "f", "i", "n", "e", "d">>

\* Template interpolation of an optional string.
Interpolate(s) ==
    IF s = Undefined THEN UndefinedText ELSE s

\* Template interpolation of an optional number, absent when negative.
InterpolateNumber(n) ==
    IF n < 0 THEN UndefinedText ELSE NumToString(n)

\* new Date(seconds * 1000).toLocaleDateString(): the rendering depends on
\* the locale of the process; it is one opaque element followed by the time.
LocaleDateString(seconds) ==
    <<":localeDate:">> \o NumToString(seconds)

\* channel-info.ts line 38: template '*Channel Name:*\n#${name}'
InfoNameText(name) ==
       <<"*", "C", "h", "a", "n", "n", "e", "l", " ", "N", "a", "m", "e", ":", "*", "\n", "#">>
    \o
       Interpolate(name)

\* channel-info.ts line 42: template '*Members:*\n${count} members'
InfoMembersText(count) ==
       <<"*", "M", "e", "m", "b", "e", "r", "s", ":", "*", "\n">>
    \o
       NumToString(count)
    \o
       <<" ", "m", "e", "m", "b", "e", "r", "s">>

\* channel-info.ts line 46: template '*Created:*\n<!date^${created}^{date_long}|${date}>'
InfoCreatedText(created) ==
       <<"*", "C", "r", "e", "a", "t", "e", "d", ":", "*", "\n", "<", "!", "d", "a", "t", "e",
         "^">>
    \o
       InterpolateNumber(created)
    \o
       <<"^", "{", "d", "a", "t", "e", "_", "l", "o", "n", "g", "}", "|">>
    \o
       LocaleDateString(IF created < 0 THEN 0 ELSE created)
    \o
       <<">">>

\* channel-info.ts line 50: 'No purpose set'
NoPurpose ==
    <<"N", "o", " ", "p", "u", "r", "p", "o", "s", "e", " ", "s", "e", "t">>

\* channel-info.ts line 58: 'No topic set'
NoTopic ==
    <<"N", "o", " ", "t", "o", "p", "i", "c", " ", "s", "e", "t">>

\* channel-info.ts line 50: template '*Purpose:*\n${purpose}'
InfoPurposeText(purpose) ==
       <<"*", "P", "u", "r", "p", "o", "s", "e", ":", "*", "\n">>
    \o
       OrElse(purpose, NoPurpose)

\* channel-info.ts line 58: template '*Topic:*\n${topic}'
InfoTopicText(topic) ==
       <<"*", "T", "o", "p", "i", "c", ":", "*", "\n">>
    \o
       OrElse(topic, NoTopic)


(***************************************************************************)
(* Inputs: the events the framework can deliver and the data the platform  *)
(* can return.                                                             *)
(***************************************************************************)
U1 ==
    <<"U", "1">>

U2 ==
    <<"U", "2">>

\* Identifiers of the users who can trigger an event.
Users ==
    {U1, U2}

\* A public channel.
C1 ==
    <<"C", "1">>

\* A direct-message conversation with the bot.
D1 ==
    <<"D", "1">>

Channels ==
    {C1, D1}

\* The platform's channel_type of a conversation.
ChannelType(c) ==
    IF c = D1 THEN "im" ELSE "channel"

\* bot_id the platform puts on the messages this bot posts.
OwnBotId ==
    "B0"

\* bot_id of a message: absent, this bot, another bot.
BotIds ==
    {"undefined", OwnBotId, "B9"}

\* subtype of a message: absent, or the marker of an edit echo.
Subtypes ==
    {"undefined", "message_changed"}

\* trigger_id of an interaction: absent, empty, or a token.
TriggerIds ==
    {"undefined", "", "1234.5678.abcd"}

\* ts of an event.
Timestamps ==
    {"1700000000.000100"}

\* JavaScript truthiness of an optional identifier.
TruthyId(x) ==
    x # "undefined" /\ x # ""

Vocabulary ==
    { KwHello,
      <<"H", "e", "L", "L", "o">>,
      <<"t", "h", "i", "s">>,
      KwHelp,
      KwHowAreYou,
      KwUrgent,
      <<"U", "R", "G", "E", "N", "T">>,
      <<"E", "m", "e", "r", "g", "e", "n", "c", "y">>,
      KwImportant,
      KwAsap,
      KwStatus,
      <<"T", "h", "a", "n", "k", "s">>,
      <<"@", "b", "o", "t">> }

RECURSIVE JoinWords(_)
JoinWords(ws) ==
    IF ws = <<>> THEN EmptyText
    ELSE IF Len(ws) = 1 THEN ws[1]
    ELSE ws[1] \o <<" ">> \o JoinWords(Tail(ws))

\* The texts a user can type: up to MaxWords words joined by blanks.
Texts ==
    {JoinWords(ws) : ws \in UNION {[1..k -> Vocabulary] : k \in 0..MaxWords}}

\* users.info: the user object of a successful response.
UserProfiles ==
    [real_name : {EmptyText, <<"A", "n", "n", " ", "L", "e", "e">>},
     name      : {EmptyText, <<"a", "n", "n">>}]

(***************************************************************************)
(* External calls.  A call is recorded when the handler issues it; its     *)
(* result is filled in when the awaited promise settles.                   *)
(***************************************************************************)
NoView ==
    [type |-> "", callback_id |-> "", title |-> "", submit |-> "", close |-> "",
     block_ids |-> <<>>]

BaseCall(api) ==
    [api |-> api, channel |-> Undefined, user |-> Undefined, text |-> Undefined,
     blocks |-> <<>>, thread_ts |-> "", name |-> "", timestamp |-> "",
     trigger_id |-> "", view |-> NoView, result |-> "pending"]

\* ack(): the acknowledgment of a command, action or shortcut.  It is the
\* framework's own reply on the connection the request came in on, not a call
\* to the platform API: the handlers resume from it without a failure path.
AckCall ==
    BaseCall("ack")

\* say(message): the framework posts the message to the channel of the event.
SayCall(ev, text, blocks, thread_ts) ==
    [BaseCall("say") EXCEPT !.channel = ev.channel, !.text = text,
                            !.blocks = blocks, !.thread_ts = thread_ts]

ConversationsInfoCall(channel) ==
    [BaseCall("conversations.info") EXCEPT !.channel = channel]

UsersInfoCall(user) ==
    [BaseCall("users.info") EXCEPT !.user = user]

ReactionsAddCall(channel, name, ts) ==
    [BaseCall("reactions.add") EXCEPT !.channel = channel, !.name = name,
                                      !.timestamp = ts]

\* The result of the call the handler is awaiting.
Settle(cs, r) ==
    [cs EXCEPT ![Len(cs)].result = r]

(***************************************************************************)
(* State: one entry per handler invocation.                                *)
(***************************************************************************)
VARIABLES
    handler,    \* the handler the framework dispatched, "idle" before dispatch
    event,      \* the event, command or interaction body given to the handler
    pc,         \* the await the invocation is suspended at
    local,      \* the handler's local constants
    calls,      \* the external calls issued so far, oldest first
    logs,       \* the console.error lines written so far
    status,     \* "running", "returned", or "rejected" (the promise rejected)
    env,        \* the names of the environment variables that are set
    proc        \* the process: its state, exit code (-1 while it has not
                \* exited), console lines and registered listeners

vars ==
    <<handler, event, pc, local, calls, logs, status, env, proc>>

Invocations ==
    DOMAIN handler

NoEvent ==
    [text |-> Undefined, user |-> Undefined, channel |-> Undefined,
     channel_type |-> "", ts |-> "", subtype |-> "undefined",
     bot_id |-> "undefined", trigger_id |-> "undefined", value |-> Undefined]

NoLocal ==
    [real_name |-> Undefined, name |-> Undefined, is_im |-> FALSE,
     channelName |-> Undefined, created |-> 0, purpose |-> Undefined,
     topic |-> Undefined, memberCount |-> 0, ackTime |-> 0,
     channelId |-> Undefined, background |-> "none"]

\* One segment of invocation i ends: the calls, log, await point, status and
\* locals it leaves behind.
Segment(i, cs, lg, p, st, lc) ==
    /\ calls' = [calls EXCEPT ![i] = cs]
    /\ logs' = [logs EXCEPT ![i] = lg]
    /\ pc' = [pc EXCEPT ![i] = p]
    /\ status' = [status EXCEPT ![i] = st]
    /\ local' = [local EXCEPT ![i] = lc]
    /\ UNCHANGED <<handler, event, env, proc>>

\* The invocation issues call c and suspends at await point p.
Await(i, cs, c, p, lc) ==
    Segment(i, Append(cs, c), logs[i], p, "running", lc)

\* The handler returns normally.
Return(i, cs, lg) ==
    Segment(i, cs, lg, "done", "returned", local[i])

\* An error escapes the handler: the promise it returned rejects.
Reject(i, cs) ==
    Segment(i, cs, logs[i], "done", "rejected", local[i])

At(i, h, p) ==
    /\ handler[i] = h
    /\ pc[i] = p

(***************************************************************************)
(* messageEvent (src/src/listeners/events/message.ts)                      *)
(***************************************************************************)
MessageEvents ==
    {[NoEvent EXCEPT !.text = t, !.user = u, !.channel = c,
                     !.channel_type = ChannelType(c), !.ts = ts,
                     !.subtype = st, !.bot_id = b] :
        t \in Texts \cup {Undefined}, u \in Users, c \in Channels,
        ts \in Timestamps, st \in Subtypes, b \in BotIds}

\* MessageDropped without the bot_id test of lines 17-19.
MessageDroppedNoBotTest(ev) ==
    \/ ~Truthy(ev.text)
    \/ TruthyId(ev.subtype)

\* MessageDropped without the subtype test of lines 13-15.
MessageDroppedNoSubtypeTest(ev) ==
    \/ ~Truthy(ev.text)
    \/ TruthyId(ev.bot_id)

\* MessageDropped ignoring the messages of other bots only.
MessageDroppedOtherBotsOnly(ev) ==
    \/ ~Truthy(ev.text)
    \/ TruthyId(ev.subtype)
    \/ (TruthyId(ev.bot_id) /\ ev.bot_id # OwnBotId)

\* MessageDropped without the text test of lines 9-11.
MessageDroppedNoTextTest(ev) ==
    \/ TruthyId(ev.subtype)
    \/ TruthyId(ev.bot_id)

\* Lines 9-19: the events the handler drops before any call.
MessageDropped(ev) ==
    \/ ~Truthy(ev.text)
    \/ TruthyId(ev.subtype)
    \/ TruthyId(ev.bot_id)

\* DmReply testing 'help' before 'hello' and 'hi'.
DmReplyHelpFirst(ev) ==
    LET lowerText == ToLowerCase(ev.text)
    IN  IF Includes(lowerText, KwHelp)
        THEN DmHelpText
        ELSE IF Includes(lowerText, KwHello) \/ Includes(lowerText, KwHi)
        THEN DmGreeting(ev.user)
        ELSE IF Includes(lowerText, KwHowAreYou)
        THEN DmHowText
        ELSE Undefined

\* DmReply matching the text as typed, without toLowerCase.
DmReplyCaseSensitive(ev) ==
    IF Includes(ev.text, KwHello) \/ Includes(ev.text, KwHi)
    THEN DmGreeting(ev.user)
    ELSE IF Includes(ev.text, KwHelp)
    THEN DmHelpText
    ELSE IF Includes(ev.text, KwHowAreYou)
    THEN DmHowText
    ELSE Undefined

\* Lines 26-47: the reply to a direct message, Undefined when no rule matches.
DmReply(ev) ==
    LET lowerText == ToLowerCase(ev.text)
    IN  IF Includes(lowerText, KwHello) \/ Includes(lowerText, KwHi)
        THEN DmGreeting(ev.user)
        ELSE IF Includes(lowerText, KwHelp)
        THEN DmHelpText
        ELSE IF Includes(lowerText, KwHowAreYou)
        THEN DmHowText
        ELSE Undefined

Keywords ==
    <<KwUrgent, KwEmergency, KwImportant, KwAsap>>

\* HasKeyword without toLowerCase().
HasKeywordCaseSensitive(text) ==
    \E k \in 1..Len(Keywords) : Includes(text, Keywords[k])

\* Lines 49-52: keywords.some(keyword => text.toLowerCase().includes(keyword)).
HasKeyword(text) ==
    \E k \in 1..Len(Keywords) : Includes(ToLowerCase(text), Keywords[k])

\* Lines 9-23.
MessageStart(i) ==
    /\ At(i, "message", "start")
    /\ IF MessageDropped(event[i])
       THEN Return(i, calls[i], logs[i])
       ELSE Await(i, calls[i], ConversationsInfoCall(event[i].channel),
                  "conversations.info", local[i])

\* MessageCatch that swallows the failure and goes on awaiting the failed call.
MessageCatchHanging(i) ==
    Segment(i, Settle(calls[i], "error"), logs[i], pc[i], "running", local[i])

\* MessageCatch without the try block: the failure leaves the handler unlogged.
MessageCatchRethrow(i) ==
    Reject(i, Settle(calls[i], "error"))

\* Lines 68-70.
MessageCatch(i) ==
    Return(i, Settle(calls[i], "error"),
           Append(logs[i], "Error handling message event:"))

\* MessageClassified reading the event from a variable the invocations
\* share: it sees the event of another messageEvent invocation if there is one.
MessageClassifiedSharedEvent(i, is_im) ==
    LET others == {j \in Invocations \ {i} : handler[j] = "message"}
        ev == IF others = {} THEN event[i] ELSE event[CHOOSE j \in others : TRUE]
        cs == Settle(calls[i], "ok")
        lc == [local[i] EXCEPT !.is_im = is_im]
    IN  IF is_im
        THEN IF DmReply(ev) # Undefined
             THEN Await(i, cs, SayCall(ev, DmReply(ev), <<>>, ev.ts), "say", lc)
             ELSE Segment(i, cs, logs[i], "done", "returned", lc)
        ELSE IF HasKeyword(ev.text)
             THEN Await(i, cs, ReactionsAddCall(ev.channel, "eyes", ev.ts),
                        "reactions.add eyes", lc)
             ELSE Segment(i, cs, logs[i], "done", "returned", lc)

\* Lines 25-67, once conversations.info resolved with the channel object.
MessageClassified(i, is_im) ==
    LET ev == event[i]
        cs == Settle(calls[i], "ok")
        lc == [local[i] EXCEPT !.is_im = is_im]
    IN  IF is_im
        THEN IF DmReply(ev) # Undefined
             THEN Await(i, cs, SayCall(ev, DmReply(ev), <<>>, ev.ts), "say", lc)
             ELSE Segment(i, cs, logs[i], "done", "returned", lc)
        ELSE IF HasKeyword(ev.text)
             THEN Await(i, cs, ReactionsAddCall(ev.channel, "eyes", ev.ts),
                        "reactions.add eyes", lc)
             ELSE Segment(i, cs, logs[i], "done", "returned", lc)

\* MessageAfterInfo with a memory across invocations: a message whose like
\* another invocation has already handled is not answered again.
MessageAfterInfoDeduplicating(i) ==
    /\ At(i, "message", "conversations.info")
    /\ \/ IF \E j \in Invocations \ {i} :
                /\ handler[j] = "message"
                /\ event[j] = event[i]
                /\ Len(calls[j]) >= 2
          THEN Return(i, Settle(calls[i], "ok"), logs[i])
          ELSE MessageClassified(i, event[i].channel_type = "im")
       \/ MessageCatch(i)

\* conversations.info settles.
MessageAfterInfo(i) ==
    /\ At(i, "message", "conversations.info")
    /\ \/ MessageClassified(i, event[i].channel_type = "im")
       \/ MessageCatch(i)

\* The reply of lines 29, 34 or 43 settles.
MessageAfterSay(i) ==
    /\ At(i, "message", "say")
    /\ \/ Return(i, Settle(calls[i], "ok"), logs[i])
       \/ MessageCatch(i)

\* MessageAfterEyes adding 'eyes' a second time in place of 'warning'.
MessageAfterEyesRepeated(i) ==
    /\ At(i, "message", "reactions.add eyes")
    /\ \/ Await(i, Settle(calls[i], "ok"),
                ReactionsAddCall(event[i].channel, "eyes", event[i].ts),
                "reactions.add warning", local[i])
       \/ MessageCatch(i)

\* reactions.add 'eyes' settles; lines 61-65 add 'warning'.
MessageAfterEyes(i) ==
    /\ At(i, "message", "reactions.add eyes")
    /\ \/ Await(i, Settle(calls[i], "ok"),
                ReactionsAddCall(event[i].channel, "warning", event[i].ts),
                "reactions.add warning", local[i])
       \/ MessageCatch(i)

\* reactions.add 'warning' settles.
MessageAfterWarning(i) ==
    /\ At(i, "message", "reactions.add warning")
    /\ \/ Return(i, Settle(calls[i], "ok"), logs[i])
       \/ MessageCatch(i)

(***************************************************************************)
(* appMentionEvent (src/src/listeners/events/app-mention.ts)               *)
(***************************************************************************)
MentionEvents ==
    {[NoEvent EXCEPT !.text = t, !.user = u, !.channel = C1,
                     !.channel_type = ChannelType(C1), !.ts = ts] :
        t \in Texts, u \in Users, ts \in Timestamps}

\* MentionResponse with the tests for 'status' and 'thank' exchanged.
MentionResponseExchanged(ev) ==
    LET messageText == ToLowerCase(ev.text)
    IN  IF Includes(messageText, KwHelp)
        THEN MentionHelp(ev.user)
        ELSE IF Includes(messageText, KwThank)
        THEN MentionStatus(ev.user)
        ELSE IF Includes(messageText, KwStatus)
        THEN MentionThanks(ev.user)
        ELSE MentionDefault(ev.user)

\* MentionResponse testing 'status' before 'help'.
MentionResponseStatusFirst(ev) ==
    LET messageText == ToLowerCase(ev.text)
    IN  IF Includes(messageText, KwStatus)
        THEN MentionStatus(ev.user)
        ELSE IF Includes(messageText, KwHelp)
        THEN MentionHelp(ev.user)
        ELSE IF Includes(messageText, KwThank)
        THEN MentionThanks(ev.user)
        ELSE MentionDefault(ev.user)

\* Lines 8-24: the response to a mention.
MentionResponse(ev) ==
    LET messageText == ToLowerCase(ev.text)
    IN  IF Includes(messageText, KwHelp)
        THEN MentionHelp(ev.user)
        ELSE IF Includes(messageText, KwStatus)
        THEN MentionStatus(ev.user)
        ELSE IF Includes(messageText, KwThank)
        THEN MentionThanks(ev.user)
        ELSE MentionDefault(ev.user)

\* Lines 8-29.
MentionStart(i) ==
    /\ At(i, "app_mention", "start")
    /\ Await(i, calls[i],
             SayCall(event[i], MentionResponse(event[i]), <<>>, event[i].ts),
             "say", local[i])

\* say settles; lines 30-32 log a rejection.
MentionAfterSay(i) ==
    /\ At(i, "app_mention", "say")
    /\ \/ Return(i, Settle(calls[i], "ok"), logs[i])
       \/ Return(i, Settle(calls[i], "error"),
                 Append(logs[i], "Error handling app mention:"))

(***************************************************************************)
(* Block Kit payloads.                                                     *)
(***************************************************************************)
\* A block that carries one text object.
TextBlock(type, text) ==
    [type |-> type, text |-> text, fields |-> <<>>, elements |-> <<>>]

\* A section block with fields.
FieldsBlock(fields) ==
    [type |-> "section", text |-> Undefined, fields |-> fields, elements |-> <<>>]

\* A context or actions block: a list of elements.
ElementsBlock(type, elements) ==
    [type |-> type, text |-> Undefined, fields |-> <<>>, elements |-> elements]

\* A mrkdwn element of a context block.
MrkdwnElement(text) ==
    [type |-> "mrkdwn", text |-> text, action_id |-> "", value |-> Undefined,
     style |-> ""]

ButtonElement(text, action_id, value, style) ==
    [type |-> "button", text |-> text, action_id |-> action_id, value |-> value,
     style |-> style]

\* users.info resolves with a user object, or with none.
UserObjects ==
    UserProfiles \cup {[real_name |-> Undefined, name |-> Undefined]}

(***************************************************************************)
(* memberJoinedChannelEvent (src/src/listeners/events/member-joined.ts)    *)
(***************************************************************************)
MemberJoinedEvents ==
    {[NoEvent EXCEPT !.user = u, !.channel = C1,
                     !.channel_type = ChannelType(C1)] : u \in Users}

\* conversations.info: the channel names the handler can read, Undefined when
\* the response carries no channel object.
ChannelNames ==
    {Undefined, EmptyText, <<"g", "e", "n", "e", "r", "a", "l">>}

\* Lines 19-60.
WelcomeBlocks(ev, userName, channelName) ==
    << TextBlock("section", WelcomeText(channelName, userName)),
       TextBlock("section", WelcomeBody),
       ElementsBlock("actions",
           << ButtonElement(BtnChannelInfo, "channel_info", ev.channel, ""),
              ButtonElement(BtnViewHelp, "view_help", Undefined, "primary") >>) >>

PostMessageCall(channel, blocks) ==
    [BaseCall("chat.postMessage") EXCEPT !.channel = channel, !.blocks = blocks]

\* Lines 61-63.
MemberJoinedCatch(i) ==
    Return(i, Settle(calls[i], "error"),
           Append(logs[i], "Error handling member joined event:"))

\* MemberJoinedStart looking the channel up first.
MemberJoinedStartChannelFirst(i) ==
    /\ At(i, "member_joined_channel", "start")
    /\ Await(i, calls[i], ConversationsInfoCall(event[i].channel), "users.info",
             local[i])

\* Lines 8-10.
MemberJoinedStart(i) ==
    /\ At(i, "member_joined_channel", "start")
    /\ Await(i, calls[i], UsersInfoCall(event[i].user), "users.info", local[i])

\* users.info settles; lines 12-14.
MemberJoinedAfterUsersInfo(i) ==
    /\ At(i, "member_joined_channel", "users.info")
    /\ \/ \E u \in UserObjects :
            Await(i, Settle(calls[i], "ok"),
                  ConversationsInfoCall(event[i].channel), "conversations.info",
                  [local[i] EXCEPT !.real_name = u.real_name, !.name = u.name])
       \/ MemberJoinedCatch(i)

\* conversations.info settles; lines 16-60.
MemberJoinedAfterInfo(i) ==
    /\ At(i, "member_joined_channel", "conversations.info")
    /\ \/ \E n \in ChannelNames :
            LET userName == OrElse(local[i].real_name, OrElse(local[i].name, NewMember))
                channelName == OrElse(n, TheChannel)
            IN  Await(i, Settle(calls[i], "ok"),
                      PostMessageCall(event[i].channel,
                                      WelcomeBlocks(event[i], userName, channelName)),
                      "chat.postMessage",
                      [local[i] EXCEPT !.channelName = n])
       \/ MemberJoinedCatch(i)

\* chat.postMessage settles.
MemberJoinedAfterPost(i) ==
    /\ At(i, "member_joined_channel", "chat.postMessage")
    /\ \/ Return(i, Settle(calls[i], "ok"), logs[i])
       \/ MemberJoinedCatch(i)

(***************************************************************************)
(* Slash commands (src/src/listeners/commands)                             *)
(***************************************************************************)
\* command.text, command.user_id, command.channel_id.
Commands ==
    {[NoEvent EXCEPT !.text = t, !.user = u, !.channel = c,
                     !.channel_type = ChannelType(c)] :
        t \in Texts, u \in Users, c \in Channels}

\* HelloBlocks greeting with 'there' whatever users.info returned.
HelloBlocksAnonymous(command, userName) ==
    << TextBlock("section", HelloGreeting(There)),
       TextBlock("section", HelloOrigin(command.channel)),
       ElementsBlock("context",
           << MrkdwnElement(HelloCommandText(OrElse(command.text, NoneText))) >>) >>

\* hello.ts lines 18-44.
HelloBlocks(command, userName) ==
    << TextBlock("section", HelloGreeting(userName)),
       TextBlock("section", HelloOrigin(command.channel)),
       ElementsBlock("context",
           << MrkdwnElement(HelloCommandText(OrElse(command.text, NoneText))) >>) >>

\* hello.ts line 9.
HelloStart(i) ==
    /\ At(i, "/hello", "start")
    /\ Await(i, calls[i], AckCall, "ack", local[i])

\* hello.ts lines 11-14.
HelloAfterAck(i) ==
    /\ At(i, "/hello", "ack")
    /\ Await(i, Settle(calls[i], "ok"), UsersInfoCall(event[i].user),
             "users.info", local[i])

\* hello.ts lines 45-47: the catch block logs and says sorry.
HelloCatch(i) ==
    Segment(i,
            Append(Settle(calls[i], "error"),
                   SayCall(event[i], HelloSorry, <<>>, "")),
            Append(logs[i], "Error in hello command:"),
            "say sorry", "running", local[i])

\* users.info settles; hello.ts lines 16-44.
HelloAfterUsersInfo(i) ==
    /\ At(i, "/hello", "users.info")
    /\ \/ \E u \in UserObjects :
            LET userName == OrElse(u.real_name, OrElse(u.name, There))
            IN  Await(i, Settle(calls[i], "ok"),
                      SayCall(event[i], Undefined,
                              HelloBlocks(event[i], userName), ""),
                      "say",
                      [local[i] EXCEPT !.real_name = u.real_name, !.name = u.name])
       \/ HelloCatch(i)

\* HelloAfterSay with a failed greeting leaving the handler at once.
HelloAfterSayNoFallback(i) ==
    /\ At(i, "/hello", "say")
    /\ \/ Return(i, Settle(calls[i], "ok"), logs[i])
       \/ Reject(i, Settle(calls[i], "error"))

\* The greeting say settles.
HelloAfterSay(i) ==
    /\ At(i, "/hello", "say")
    /\ \/ Return(i, Settle(calls[i], "ok"), logs[i])
       \/ HelloCatch(i)

\* The say of the catch block settles; nothing catches its rejection.
HelloAfterSorry(i) ==
    /\ At(i, "/hello", "say sorry")
    /\ \/ Return(i, Settle(calls[i], "ok"), logs[i])
       \/ Reject(i, Settle(calls[i], "error"))

\* help.ts lines 9-66.
HelpBlocks ==
    << TextBlock("header", HelpHeader),
       TextBlock("section", HelpIntro),
       TextBlock("divider", Undefined),
       TextBlock("section", HelpCommands),
       TextBlock("section", HelpEvents),
       TextBlock("section", HelpInteractive),
       ElementsBlock("context", << MrkdwnElement(HelpContext) >>) >>

\* help.ts line 7.
HelpStart(i) ==
    /\ At(i, "/help", "start")
    /\ Await(i, calls[i], AckCall, "ack", local[i])

\* help.ts lines 9-66.
HelpAfterAck(i) ==
    /\ At(i, "/help", "ack")
    /\ Await(i, Settle(calls[i], "ok"),
             SayCall(event[i], Undefined, HelpBlocks, ""), "say", local[i])

\* say settles; the handler has no try block.
HelpAfterSay(i) ==
    /\ At(i, "/help", "say")
    /\ \/ Return(i, Settle(calls[i], "ok"), logs[i])
       \/ Reject(i, Settle(calls[i], "error"))

\* PingBlocks without the user of line 26.
PingBlocksNoUser(command, ackTime) ==
    << TextBlock("section", PingPong),
       ElementsBlock("context",
           << MrkdwnElement(PingTimeText(ackTime, EmptyText)) >>) >>

\* ping.ts lines 12-31.
PingBlocks(command, ackTime) ==
    << TextBlock("section", PingPong),
       ElementsBlock("context",
           << MrkdwnElement(PingTimeText(ackTime, command.user)) >>) >>

\* PingStart with the reply sent before the acknowledgment.
PingStartReplyFirst(i) ==
    /\ At(i, "/ping", "start")
    /\ Await(i, calls[i], SayCall(event[i], Undefined, PingBlocks(event[i], 0), ""),
             "ack", local[i])

\* ping.ts lines 8-9.
PingStart(i) ==
    /\ At(i, "/ping", "start")
    /\ Await(i, calls[i], AckCall, "ack", local[i])

\* ping.ts lines 10-31: ackTime is the time ack() took.
PingAfterAck(i) ==
    /\ At(i, "/ping", "ack")
    /\ \E ackTime \in 0..MaxAckMs :
         Await(i, Settle(calls[i], "ok"),
               SayCall(event[i], Undefined, PingBlocks(event[i], ackTime), ""),
               "say", [local[i] EXCEPT !.ackTime = ackTime])

\* say settles; the handler has no try block.
PingAfterSay(i) ==
    /\ At(i, "/ping", "say")
    /\ \/ Return(i, Settle(calls[i], "ok"), logs[i])
       \/ Reject(i, Settle(calls[i], "error"))

(***************************************************************************)
(* Modals: viewHelpAction (actions/view-help.ts) and createTaskShortcut    *)
(* (src/src/listeners/shortcuts/create-task.ts)                            *)
(***************************************************************************)
\* body.trigger_id and body.user.id of a button click or a shortcut.
Interactions ==
    {[NoEvent EXCEPT !.user = u, !.channel = C1,
                     !.channel_type = ChannelType(C1), !.trigger_id = t] :
        u \in Users, t \in TriggerIds}

\* view-help.ts lines 13-96.
HelpView ==
    [type |-> "modal", callback_id |-> "undefined", title |-> "Bot Help Guide",
     submit |-> "undefined", close |-> "Close", block_ids |-> <<>>]

\* create-task.ts lines 13-120.
TaskView ==
    [type |-> "modal", callback_id |-> "task_modal", title |-> "Create New Task",
     submit |-> "Create", close |-> "Cancel",
     block_ids |-> <<"task_title", "task_description", "task_priority",
                     "task_assignee">>]

\* client.views.open({trigger_id, view}).
ViewsOpenCall(trigger_id, view) ==
    [BaseCall("views.open") EXCEPT !.trigger_id = trigger_id, !.view = view]

\* The platform opens a modal only for a call that carries an interaction
\* token; it rejects every other views.open.
PlatformOpens(c) ==
    TruthyId(c.trigger_id)

\* view-help.ts line 8.
ViewHelpStart(i) ==
    /\ At(i, "view_help", "start")
    /\ Await(i, calls[i], AckCall, "ack", local[i])

\* view-help.ts lines 10-97.
ViewHelpAfterAck(i) ==
    /\ At(i, "view_help", "ack")
    /\ Await(i, Settle(calls[i], "ok"),
             ViewsOpenCall(event[i].trigger_id, HelpView), "views.open", local[i])

\* views.open settles; view-help.ts lines 98-100 log a rejection.
ViewHelpAfterOpen(i) ==
    /\ At(i, "view_help", "views.open")
    /\ \/ /\ PlatformOpens(calls[i][Len(calls[i])])
          /\ Return(i, Settle(calls[i], "ok"), logs[i])
       \/ Return(i, Settle(calls[i], "error"),
                 Append(logs[i], "Error opening help modal:"))

\* create-task.ts line 8.
CreateTaskStart(i) ==
    /\ At(i, "create_task", "start")
    /\ Await(i, calls[i], AckCall, "ack", local[i])

\* create-task.ts lines 10-121.
CreateTaskAfterAck(i) ==
    /\ At(i, "create_task", "ack")
    /\ Await(i, Settle(calls[i], "ok"),
             ViewsOpenCall(event[i].trigger_id, TaskView), "views.open", local[i])

\* views.open settles; create-task.ts lines 122-124 log a rejection.
CreateTaskAfterOpen(i) ==
    /\ At(i, "create_task", "views.open")
    /\ \/ /\ PlatformOpens(calls[i][Len(calls[i])])
          /\ Return(i, Settle(calls[i], "ok"), logs[i])
       \/ Return(i, Settle(calls[i], "error"),
                 Append(logs[i], "Error opening task modal:"))

(***************************************************************************)
(* channelInfoAction (actions/channel-info.ts)                             *)
(***************************************************************************)
\* action.value, body.channel?.id and body.user.id of a click on the button.
ChannelInfoClicks ==
    {[NoEvent EXCEPT !.user = u, !.channel = c, !.value = v] :
        u \in Users, c \in {Undefined, C1, D1}, v \in {Undefined, EmptyText, C1}}

\* conversations.info: the channel object of a successful response; name is
\* Undefined when the response carries no channel object, created is -1 when
\* it is absent.
ChannelObjects ==
    [name    : ChannelNames,
     created : {-1, 1700000000},
     purpose : {Undefined, <<"T", "e", "a", "m">>},
     topic   : {Undefined, EmptyText}]

\* ChannelIdOf preferring the channel of the interaction to the button's
\* value.
ChannelIdOfBodyFirst(ev) ==
    IF Truthy(ev.channel) THEN ev.channel ELSE ev.value

\* Line 12: (action as any).value || body.channel?.id.
ChannelIdOf(ev) ==
    IF Truthy(ev.value) THEN ev.value ELSE ev.channel

\* Lines 25-61.
ChannelInfoBlocks(lc) ==
    << TextBlock("header", InfoHeader),
       FieldsBlock(
           << InfoNameText(lc.channelName),
              InfoMembersText(lc.memberCount),
              InfoCreatedText(lc.created),
              InfoPurposeText(lc.purpose) >>),
       TextBlock("section", InfoTopicText(lc.topic)) >>

ConversationsMembersCall(channel) ==
    [BaseCall("conversations.members") EXCEPT !.channel = channel]

PostEphemeralCall(channel, user, blocks) ==
    [BaseCall("chat.postEphemeral") EXCEPT !.channel = channel, !.user = user,
                                           !.blocks = blocks]

\* Lines 63-65.
ChannelInfoCatch(i) ==
    Return(i, Settle(calls[i], "error"),
           Append(logs[i], "Error handling channel info action:"))

\* Line 9.
ChannelInfoStart(i) ==
    /\ At(i, "channel_info", "start")
    /\ Await(i, calls[i], AckCall, "ack", local[i])

\* Lines 11-16.
ChannelInfoAfterAck(i) ==
    /\ At(i, "channel_info", "ack")
    /\ LET channelId == ChannelIdOf(event[i])
       IN  Await(i, Settle(calls[i], "ok"), ConversationsInfoCall(channelId),
                 "conversations.info", [local[i] EXCEPT !.channelId = channelId])

\* conversations.info settles; lines 18-20.
ChannelInfoAfterInfo(i) ==
    /\ At(i, "channel_info", "conversations.info")
    /\ \/ \E ch \in ChannelObjects :
            Await(i, Settle(calls[i], "ok"),
                  ConversationsMembersCall(local[i].channelId),
                  "conversations.members",
                  [local[i] EXCEPT !.channelName = ch.name, !.created = ch.created,
                                   !.purpose = ch.purpose, !.topic = ch.topic])
       \/ ChannelInfoCatch(i)

\* conversations.members settles; lines 22-62.
ChannelInfoAfterMembers(i) ==
    /\ At(i, "channel_info", "conversations.members")
    /\ \/ \E n \in 0..MaxMembers :
            LET lc == [local[i] EXCEPT !.memberCount = n]
            IN  Await(i, Settle(calls[i], "ok"),
                      PostEphemeralCall(lc.channelId, event[i].user,
                                        ChannelInfoBlocks(lc)),
                      "chat.postEphemeral", lc)
       \/ ChannelInfoCatch(i)

\* chat.postEphemeral settles.
ChannelInfoAfterEphemeral(i) ==
    /\ At(i, "channel_info", "chat.postEphemeral")
    /\ \/ Return(i, Settle(calls[i], "ok"), logs[i])
       \/ ChannelInfoCatch(i)

(***************************************************************************)
(* index.ts (listed in src/src/README.md): the process from load to the    *)
(* running app.                                                            *)
(***************************************************************************)
\* Registrations with the view_help action left out.
RegistrationsWithoutViewHelp ==
    { [kind |-> "command", key |-> "/hello", listener |-> "helloCommand"],
      [kind |-> "command", key |-> "/help", listener |-> "helpCommand"],
      [kind |-> "command", key |-> "/ping", listener |-> "pingCommand"],
      [kind |-> "event", key |-> "app_mention", listener |-> "appMentionEvent"],
      [kind |-> "event", key |-> "message", listener |-> "messageEvent"],
      [kind |-> "event", key |-> "member_joined_channel",
       listener |-> "memberJoinedChannelEvent"],
      [kind |-> "action", key |-> "channel_info",
       listener |-> "channelInfoAction"],
      [kind |-> "shortcut", key |-> "create_task",
       listener |-> "createTaskShortcut"] }

\* What registerListeners registers: registerCommands (part_000 lines 6-10),
\* registerEvents (app-mention.ts lines 39-43), registerActions
\* (actions/index.ts lines 5-8) and registerShortcuts (shortcuts/README.md
\* lines 191-193).
Registrations ==
    { [kind |-> "command", key |-> "/hello", listener |-> "helloCommand"],
      [kind |-> "command", key |-> "/help", listener |-> "helpCommand"],
      [kind |-> "command", key |-> "/ping", listener |-> "pingCommand"],
      [kind |-> "event", key |-> "app_mention", listener |-> "appMentionEvent"],
      [kind |-> "event", key |-> "message", listener |-> "messageEvent"],
      [kind |-> "event", key |-> "member_joined_channel",
       listener |-> "memberJoinedChannelEvent"],
      [kind |-> "action", key |-> "channel_info",
       listener |-> "channelInfoAction"],
      [kind |-> "action", key |-> "view_help", listener |-> "viewHelpAction"],
      [kind |-> "shortcut", key |-> "create_task",
       listener |-> "createTaskShortcut"] }

\* The environment variables the App is configured from (lines 131-134).
EnvNames ==
    {"SLACK_BOT_TOKEN", "SLACK_SIGNING_SECRET", "SLACK_APP_TOKEN"}

\* The framework accepts the configuration: both tokens a Socket Mode app
\* cannot start without are set.  index.ts does not test them: it hands
\* whatever the environment holds to the framework, which refuses a missing
\* one either when the App is constructed or when it is started.
FrameworkAccepts ==
    {"SLACK_BOT_TOKEN", "SLACK_APP_TOKEN"} \subseteq env

\* The process ends with the given exit code.
Exit(code, console) ==
    /\ proc' = [proc EXCEPT !.state = "exited", !.exitCode = code,
                            !.console = console]
    /\ UNCHANGED <<handler, event, pc, local, calls, logs, status, env>>

\* Lines 130-142: new App(...), registerListeners(app) and the call of
\* app.start().  An exception thrown by the constructor is outside the try
\* block of lines 141-147 and ends the process as an uncaught exception.
Construct ==
    /\ proc.state = "loading"
    /\ \/ /\ proc' = [proc EXCEPT !.state = "starting",
                                  !.registered = Registrations]
          /\ UNCHANGED <<handler, event, pc, local, calls, logs, status, env>>
       \/ /\ ~FrameworkAccepts
          /\ Exit(1, proc.console)

\* StartCatch without process.exit(1): the process ends when its event loop
\* is empty, with the exit code of a normal end.
StartCatchNoExit ==
    Exit(0, Append(proc.console, "Unable to start App"))

\* Lines 144-147.
StartCatch ==
    Exit(1, Append(proc.console, "Unable to start App"))

\* Lines 142-147: app.start() settles.  It resolves only for an App that has
\* its mandatory tokens.
AppStart ==
    /\ proc.state = "starting"
    /\ \/ /\ FrameworkAccepts
          /\ proc' = [proc EXCEPT !.state = "running",
                                  !.console = Append(@, "Slack bot is running!")]
          /\ UNCHANGED <<handler, event, pc, local, calls, logs, status, env>>
       \/ StartCatch

(***************************************************************************)
(* The framework: it delivers each event to the handler registered for it. *)
(***************************************************************************)
\* The events, commands and interactions the framework can deliver to the
\* handler registered under key h.
EventsOf(h) ==
    CASE h = "message"               -> MessageEvents
      [] h = "app_mention"           -> MentionEvents
      [] h = "member_joined_channel" -> MemberJoinedEvents
      [] h \in {"/hello", "/help", "/ping"} -> Commands
      [] h = "channel_info"          -> ChannelInfoClicks
      [] h \in {"view_help", "create_task"} -> Interactions

\* The callback_ids a view-submission handler is registered under: the
\* registrations contain no app.view(...) call.
ViewHandlers ==
    {}

\* The keys handlers are registered under.
Handlers ==
    {"message", "app_mention", "member_joined_channel", "/hello", "/help",
     "/ping", "channel_info", "view_help", "create_task"}

\* The framework invokes the handler registered for an incoming event.
Dispatch(i) ==
    /\ proc.state = "running"
    /\ handler[i] = "idle"
    /\ \E h \in Handlers :
         /\ \E r \in proc.registered : r.key = h
         /\ handler' = [handler EXCEPT ![i] = h]
         /\ \E ev \in EventsOf(h) : event' = [event EXCEPT ![i] = ev]
    /\ pc' = [pc EXCEPT ![i] = "start"]
    /\ status' = [status EXCEPT ![i] = "running"]
    /\ UNCHANGED <<local, calls, logs, env, proc>>

Init ==
    /\ env \in SUBSET EnvNames
    /\ proc = [state |-> "loading", exitCode |-> -1, console |-> <<>>,
               registered |-> {}]
    /\ handler = [i \in {1} |-> "idle"]
    /\ event = [i \in {1} |-> NoEvent]
    /\ pc = [i \in {1} |-> "idle"]
    /\ local = [i \in {1} |-> NoLocal]
    /\ calls = [i \in {1} |-> <<>>]
    /\ logs = [i \in {1} |-> <<>>]
    /\ status = [i \in {1} |-> "idle"]

Next ==
    \/ Construct
    \/ AppStart
    \/ \E i \in Invocations : Dispatch(i)
    \/ \E i \in Invocations : MessageStart(i)
    \/ \E i \in Invocations : MessageAfterInfo(i)
    \/ \E i \in Invocations : MessageAfterSay(i)
    \/ \E i \in Invocations : MessageAfterEyes(i)
    \/ \E i \in Invocations : MessageAfterWarning(i)
    \/ \E i \in Invocations : MentionStart(i)
    \/ \E i \in Invocations : MentionAfterSay(i)
    \/ \E i \in Invocations : MemberJoinedStart(i)
    \/ \E i \in Invocations : MemberJoinedAfterUsersInfo(i)
    \/ \E i \in Invocations : MemberJoinedAfterInfo(i)
    \/ \E i \in Invocations : MemberJoinedAfterPost(i)
    \/ \E i \in Invocations : HelloStart(i)
    \/ \E i \in Invocations : HelloAfterAck(i)
    \/ \E i \in Invocations : HelloAfterUsersInfo(i)
    \/ \E i \in Invocations : HelloAfterSay(i)
    \/ \E i \in Invocations : HelloAfterSorry(i)
    \/ \E i \in Invocations : HelpStart(i)
    \/ \E i \in Invocations : HelpAfterAck(i)
    \/ \E i \in Invocations : HelpAfterSay(i)
    \/ \E i \in Invocations : PingStart(i)
    \/ \E i \in Invocations : PingAfterAck(i)
    \/ \E i \in Invocations : PingAfterSay(i)
    \/ \E i \in Invocations : ChannelInfoStart(i)
    \/ \E i \in Invocations : ChannelInfoAfterAck(i)
    \/ \E i \in Invocations : ChannelInfoAfterInfo(i)
    \/ \E i \in Invocations : ChannelInfoAfterMembers(i)
    \/ \E i \in Invocations : ChannelInfoAfterEphemeral(i)
    \/ \E i \in Invocations : ViewHelpStart(i)
    \/ \E i \in Invocations : ViewHelpAfterAck(i)
    \/ \E i \in Invocations : ViewHelpAfterOpen(i)
    \/ \E i \in Invocations : CreateTaskStart(i)
    \/ \E i \in Invocations : CreateTaskAfterAck(i)
    \/ \E i \in Invocations : CreateTaskAfterOpen(i)

Spec ==
    Init /\ [][Next]_vars

(***************************************************************************)
(* Two invocations of the passive text handlers in one running process.    *)
(***************************************************************************)
\* The framework invokes messageEvent or appMentionEvent for an event from
\* U2 that passes the filters of message.ts lines 9-19.  The text is a single
\* word; some words come in two spellings that differ only in the case of
\* their letters.
DispatchPair(i) ==
    /\ proc.state = "running"
    /\ handler[i] = "idle"
    /\ \E h \in {"message", "app_mention"} :
         /\ handler' = [handler EXCEPT ![i] = h]
         /\ \E ev \in EventsOf(h) :
              /\ ev.text \in Vocabulary \cup {<<"H", "E", "L", "P">>,
                                               <<"S", "t", "a", "t", "u", "s">>}
              /\ ev.user = U2
              /\ ev.subtype = "undefined"
              /\ ev.bot_id = "undefined"
              /\ event' = [event EXCEPT ![i] = ev]
    /\ pc' = [pc EXCEPT ![i] = "start"]
    /\ status' = [status EXCEPT ![i] = "running"]
    /\ UNCHANGED <<local, calls, logs, env, proc>>

\* The process is running and no event has arrived yet.
InitPair ==
    /\ handler = [i \in {1, 2} |-> "idle"]
    /\ event = [i \in {1, 2} |-> NoEvent]
    /\ pc = [i \in {1, 2} |-> "idle"]
    /\ local = [i \in {1, 2} |-> NoLocal]
    /\ calls = [i \in {1, 2} |-> <<>>]
    /\ logs = [i \in {1, 2} |-> <<>>]
    /\ status = [i \in {1, 2} |-> "idle"]
    /\ env = EnvNames
    /\ proc = [state |-> "running", exitCode |-> -1,
               console |-> <<"Slack bot is running!">>,
               registered |-> Registrations]

NextPair ==
    \/ \E i \in Invocations : DispatchPair(i)
    \/ \E i \in Invocations : MessageStart(i)
    \/ \E i \in Invocations : MessageAfterInfo(i)
    \/ \E i \in Invocations : MessageAfterSay(i)
    \/ \E i \in Invocations : MessageAfterEyes(i)
    \/ \E i \in Invocations : MessageAfterWarning(i)
    \/ \E i \in Invocations : MentionStart(i)
    \/ \E i \in Invocations : MentionAfterSay(i)

SpecPair ==
    InitPair /\ [][NextPair]_vars

(***************************************************************************)
(* longRunningCommand (src/slack-bot-guide-korean.md lines 375-386): the   *)
(* guide's pattern for work that outlasts the acknowledgment window.  The  *)
(* Korean phrases of its messages are single opaque elements.              *)
(***************************************************************************)
\* LongStart with the background work started ahead of the acknowledgment.
LongStartDeferredFirst(i) ==
    /\ At(i, "longRunningCommand", "start")
    /\ Segment(i, calls[i], logs[i], "processInBackground", "returned", local[i])

\* Line 376.
LongStart(i) ==
    /\ At(i, "longRunningCommand", "start")
    /\ Await(i, calls[i], AckCall, "ack", local[i])

\* Lines 376-377: ack() resolved, say('...') is awaited.
LongAfterAck(i) ==
    /\ At(i, "longRunningCommand", "ack")
    /\ Await(i, Settle(calls[i], "ok"),
             SayCall(event[i], <<":processing-starts:", ".", ".", ".">>, <<>>, ""),
             "say", local[i])

\* Lines 377-385: once say resolved the handler calls processInBackground(),
\* attaches the two callbacks to the promise and returns without awaiting it.
\* The handler has no try block: a rejected say rejects the handler before
\* the background work is started.
LongAfterSay(i) ==
    /\ At(i, "longRunningCommand", "say")
    /\ \/ Segment(i, Settle(calls[i], "ok"), logs[i], "processInBackground",
                  "returned", local[i])
       \/ Reject(i, Settle(calls[i], "error"))

\* LongBackgroundSettles with the catch callback chained so that it also runs
\* after the then callback.
LongBackgroundSettlesBoth(i) ==
    /\ pc[i] = "processInBackground"
    /\ \E result \in {<<"4", "2">>}, message \in {<<"b", "o", "o", "m">>} :
         Segment(i,
                 calls[i] \o
                   << SayCall(event[i], <<":white_check_mark:", " ", ":done:",
                                         ":", " ">> \o result, <<>>, ""),
                      SayCall(event[i], <<":x:", " ", ":failed:", ":", " ">>
                                         \o message, <<>>, "") >>,
                 logs[i], "follow-up", status[i],
                 [local[i] EXCEPT !.background = "resolved"])

\* Lines 380-384: the promise of processInBackground() settles and the then
\* callback or the catch callback calls say, without awaiting it.
LongBackgroundSettles(i) ==
    /\ pc[i] = "processInBackground"
    /\ \/ \E result \in {<<"4", "2">>} :
            Segment(i,
                    Append(calls[i],
                           SayCall(event[i], <<":white_check_mark:", " ", ":done:",
                                               ":", " ">> \o result, <<>>, "")),
                    logs[i], "follow-up", status[i],
                    [local[i] EXCEPT !.background = "resolved"])
       \/ \E message \in {<<"b", "o", "o", "m">>} :
            Segment(i,
                    Append(calls[i],
                           SayCall(event[i], <<":x:", " ", ":failed:", ":", " ">>
                                               \o message, <<>>, "")),
                    logs[i], "follow-up", status[i],
                    [local[i] EXCEPT !.background = "rejected"])

\* The follow-up say settles; nothing awaits it or handles its rejection.
LongFollowUpSettles(i) ==
    /\ pc[i] = "follow-up"
    /\ \E r \in {"ok", "error"} :
         Segment(i, Settle(calls[i], r), logs[i], "done", status[i], local[i])

\* The framework invokes longRunningCommand for a slash command.
DispatchLong(i) ==
    /\ proc.state = "running"
    /\ handler[i] = "idle"
    /\ handler' = [handler EXCEPT ![i] = "longRunningCommand"]
    /\ \E ev \in Commands :
         /\ ev.text = EmptyText
         /\ event' = [event EXCEPT ![i] = ev]
    /\ pc' = [pc EXCEPT ![i] = "start"]
    /\ status' = [status EXCEPT ![i] = "running"]
    /\ UNCHANGED <<local, calls, logs, env, proc>>

NextLong ==
    \/ \E i \in Invocations : DispatchLong(i)
    \/ \E i \in Invocations : LongStart(i)
    \/ \E i \in Invocations : LongAfterAck(i)
    \/ \E i \in Invocations : LongAfterSay(i)
    \/ \E i \in Invocations : LongBackgroundSettles(i)
    \/ \E i \in Invocations : LongFollowUpSettles(i)

\* Two invocations of longRunningCommand in one running process.
SpecLong ==
    InitPair /\ [][NextLong]_vars

(***************************************************************************)
(* Echoes: the platform delivers every message the bot posts back to the   *)
(* bot as a message event that carries the bot's bot_id.                   *)
(***************************************************************************)
\* The message event the platform delivers for the posted message of call c.
\* Its text is the text posted or, for a message of blocks only, the text of
\* the first block.
EchoOf(c) ==
    [NoEvent EXCEPT !.text = IF c.text # Undefined THEN c.text
                              ELSE c.blocks[1].text,
                    !.user = <<"U", "0">>,
                    !.channel = c.channel,
                    !.channel_type = ChannelType(c.channel),
                    !.ts = "1700000000.000200",
                    !.bot_id = OwnBotId]

\* A person causes the first event of the process: a message that passes the
\* filters of message.ts lines 9-19, a mention, or a member joining.  The text
\* is a single word.
DispatchHuman(i) ==
    /\ proc.state = "running"
    /\ \A j \in Invocations : handler[j] = "idle"
    /\ \E h \in {"message", "app_mention", "member_joined_channel"} :
         /\ handler' = [handler EXCEPT ![i] = h]
         /\ \E ev \in EventsOf(h) :
              /\ ev.text \in Vocabulary \cup {Undefined}
              /\ ev.subtype = "undefined"
              /\ ev.bot_id = "undefined"
              /\ event' = [event EXCEPT ![i] = ev]
    /\ pc' = [pc EXCEPT ![i] = "start"]
    /\ status' = [status EXCEPT ![i] = "running"]
    /\ UNCHANGED <<local, calls, logs, env, proc>>

\* The platform delivers a message the bot has posted to messageEvent.
DispatchEcho(i) ==
    /\ proc.state = "running"
    /\ handler[i] = "idle"
    /\ \E j \in Invocations \ {i} :
         \E k \in 1..Len(calls[j]) :
            /\ calls[j][k].api \in {"say", "chat.postMessage"}
            /\ calls[j][k].result = "ok"
            /\ event' = [event EXCEPT ![i] = EchoOf(calls[j][k])]
    /\ handler' = [handler EXCEPT ![i] = "message"]
    /\ pc' = [pc EXCEPT ![i] = "start"]
    /\ status' = [status EXCEPT ![i] = "running"]
    /\ UNCHANGED <<local, calls, logs, env, proc>>

NextEcho ==
    \/ \E i \in Invocations : DispatchHuman(i)
    \/ \E i \in Invocations : DispatchEcho(i)
    \/ \E i \in Invocations : MessageStart(i)
    \/ \E i \in Invocations : MessageAfterInfo(i)
    \/ \E i \in Invocations : MessageAfterSay(i)
    \/ \E i \in Invocations : MessageAfterEyes(i)
    \/ \E i \in Invocations : MessageAfterWarning(i)
    \/ \E i \in Invocations : MentionStart(i)
    \/ \E i \in Invocations : MentionAfterSay(i)
    \/ \E i \in Invocations : MemberJoinedStart(i)
    \/ \E i \in Invocations : MemberJoinedAfterUsersInfo(i)
    \/ \E i \in Invocations : MemberJoinedAfterInfo(i)
    \/ \E i \in Invocations : MemberJoinedAfterPost(i)

\* One event caused by a person, and the echoes of what the bot posts.
SpecEcho ==
    InitPair /\ [][NextEcho]_vars

(***************************************************************************)
(* Properties.                                                             *)
(***************************************************************************)
\* The variant of OutboundAction a call performs; "none" for acknowledgments
\* and lookups.
ActionKind(c) ==
    CASE c.api \in {"say", "chat.postMessage"} -> "PostMessage"
      [] c.api = "reactions.add"               -> "AddReaction"
      [] c.api = "views.open"                  -> "OpenModal"
      [] c.api = "chat.postEphemeral"          -> "PostEphemeral"
      [] OTHER                                 -> "none"

\* The outbound actions among the calls, in the order issued.
Outbound(cs) ==
    SelectSeq(cs, LAMBDA c : ActionKind(c) # "none")

\* The invocation has ended: the handler returned or its promise rejected.
Done(i) ==
    status[i] \in {"returned", "rejected"}

\* The calls of invocation i to the platform API named api.
CallsTo(i, api) ==
    SelectSeq(calls[i], LAMBDA c : c.api = api)

\* The message passed lines 9-19 of messageEvent.
Accepted(ev) ==
    /\ Truthy(ev.text)
    /\ ~TruthyId(ev.subtype)
    /\ ~TruthyId(ev.bot_id)

\* C1: a Message event whose sender is the bot itself never makes
\* messageEvent issue an outbound action (no reply, no reaction), whatever
\* its text and channel type.
C1_OwnMessageNoAction ==
    \A i \in Invocations :
        (handler[i] = "message" /\ event[i].bot_id = OwnBotId)
            => Outbound(calls[i]) = <<>>

\* C1 witness: messageEvent returned from a message of the bot itself whose
\* text matches a reply keyword or a reaction keyword.
C1_Witness ==
    \E i \in Invocations :
        /\ handler[i] = "message"
        /\ event[i].bot_id = OwnBotId
        /\ Truthy(event[i].text)
        /\ ~TruthyId(event[i].subtype)
        /\ HasKeyword(event[i].text) \/ DmReply(event[i]) # Undefined
        /\ status[i] = "returned"

\* C2: a Message event with a non-empty subtype never makes messageEvent
\* issue an outbound action, whatever its text, sender and channel type.
C2_SubtypeNoAction ==
    \A i \in Invocations :
        (handler[i] = "message" /\ TruthyId(event[i].subtype))
            => Outbound(calls[i]) = <<>>

\* C2 witness: messageEvent returned from an edit echo sent by a user whose
\* text matches a reply keyword or a reaction keyword.
C2_Witness ==
    \E i \in Invocations :
        /\ handler[i] = "message"
        /\ TruthyId(event[i].subtype)
        /\ ~TruthyId(event[i].bot_id)
        /\ Truthy(event[i].text)
        /\ HasKeyword(event[i].text) \/ DmReply(event[i]) # Undefined
        /\ status[i] = "returned"

\* The handlers of commands, actions and shortcuts: the framework expects an
\* acknowledgment from each.
RequestHandlers ==
    {"/hello", "/help", "/ping", "channel_info", "view_help", "create_task"}

\* C3: in every request-like handler ack() is the first call issued, it is
\* issued as soon as the handler starts, and it is never issued again.
C3_AckFirstOnce ==
    \A i \in Invocations :
        handler[i] \in RequestHandlers =>
            /\ pc[i] # "start" => calls[i] # <<>>
            /\ calls[i] # <<>> => calls[i][1].api = "ack"
            /\ \A k \in 2..Len(calls[i]) : calls[i][k].api # "ack"

\* C3 witness: channelInfoAction ended after the acknowledgment and three
\* further calls.
C3_Witness ==
    \E i \in Invocations :
        /\ handler[i] = "channel_info"
        /\ Done(i)
        /\ Len(CallsTo(i, "ack")) = 1
        /\ Len(calls[i]) = 4

\* conversations.info of invocation i resolved: the channel is classified.
Classified(i) ==
    /\ Len(CallsTo(i, "conversations.info")) = 1
    /\ CallsTo(i, "conversations.info")[1].result = "ok"

\* The reaction targets the message of the event.
TargetsEvent(c, ev) ==
    /\ c.channel = ev.channel
    /\ c.timestamp = ev.ts

\* C4: for an accepted message in a channel that is not a DM and whose text
\* contains "urgent", once the handler has ended it has produced exactly two
\* AddReaction actions, "eyes" and "warning", both on the event's channel and
\* timestamp, each whatever the outcome of the other.  (Stated for the
\* invocations whose channel lookup succeeded, so that a violation is about
\* the two reactions alone.)
C4_TwoIndependentReactions ==
    \A i \in Invocations :
        ( /\ handler[i] = "message"
          /\ Accepted(event[i])
          /\ event[i].channel_type # "im"
          /\ Includes(event[i].text, KwUrgent)
          /\ Classified(i)
          /\ Done(i) )
        => LET rs == CallsTo(i, "reactions.add")
           IN  /\ Len(rs) = 2
               /\ {rs[k].name : k \in 1..Len(rs)} = {"eyes", "warning"}
               /\ \A k \in 1..Len(rs) : TargetsEvent(rs[k], event[i])

\* C5: every accepted message whose text contains one of the four keywords
\* gets the reactions, whether or not it also gets a reply: once the channel
\* is classified, the "eyes" reaction has been issued.
C5_ReactionsRegardlessOfReply ==
    \A i \in Invocations :
        ( /\ handler[i] = "message"
          /\ Accepted(event[i])
          /\ HasKeyword(event[i].text)
          /\ Classified(i) )
        => \E k \in 1..Len(calls[i]) :
              /\ calls[i][k].api = "reactions.add"
              /\ calls[i][k].name = "eyes"

\* One PostMessage to the channel of the event, and no other outbound action.
OneReplyToChannel(i) ==
    LET out == Outbound(calls[i])
    IN  /\ Len(out) = 1
        /\ ActionKind(out[1]) = "PostMessage"
        /\ out[1].channel = event[i].channel

\* An accepted direct message whose text contains "hello" in any letter case.
DmHello(i) ==
    /\ handler[i] = "message"
    /\ Accepted(event[i])
    /\ event[i].channel_type = "im"
    /\ Includes(ToLowerCase(event[i].text), KwHello)

\* C6 as claimed: every accepted direct message whose text contains "hello"
\* in any letter case produces exactly one PostMessage, to the channel it came
\* from, and no other outbound action.
C6_DmHelloOneReply ==
    \A i \in Invocations :
        (DmHello(i) /\ Done(i)) => OneReplyToChannel(i)

\* C6 as amended: every accepted direct message whose text contains "hello"
\* in any letter case, and for which the conversations.info lookup succeeded,
\* produces exactly one PostMessage, to the channel it came from, and no other
\* outbound action; when the lookup fails it produces none.
C6_DmHelloOneReplyAfterLookup ==
    \A i \in Invocations :
        (DmHello(i) /\ Done(i)) =>
            IF Classified(i)
            THEN OneReplyToChannel(i)
            ELSE Outbound(calls[i]) = <<>>

\* C6 witness: the reply to a direct message that spells "hello" with capitals.
C6_Witness ==
    \E i \in Invocations :
        /\ DmHello(i)
        /\ ~Includes(event[i].text, KwHello)
        /\ Classified(i)
        /\ status[i] = "returned"
        /\ OneReplyToChannel(i)

\* C7: a button click or shortcut without a non-empty trigger_id never makes
\* viewHelpAction or createTaskShortcut send views.open to the platform.
C7_NoOpenWithoutToken ==
    \A i \in Invocations :
        ( /\ handler[i] \in {"view_help", "create_task"}
          /\ ~TruthyId(event[i].trigger_id) )
        => CallsTo(i, "views.open") = <<>>

\* Every string a call carries to the platform.
CallTexts(c) ==
    {c.text}
    \cup {c.blocks[k].text : k \in 1..Len(c.blocks)}
    \cup UNION {{c.blocks[k].fields[j] : j \in 1..Len(c.blocks[k].fields)} :
                    k \in 1..Len(c.blocks)}
    \cup UNION {{c.blocks[k].elements[j].text : j \in 1..Len(c.blocks[k].elements)} :
                    k \in 1..Len(c.blocks)}

\* The content of call c contains the string s.
CallContains(c, s) ==
    \E t \in CallTexts(c) : t # Undefined /\ Includes(t, s)

\* A slash command invoked with empty text by user U1 has ended.
EmptyCommandDone(i, h) ==
    /\ handler[i] = h
    /\ event[i].text = EmptyText
    /\ event[i].user = U1
    /\ Done(i)

\* C8 as claimed: /hello, /ping and /help invoked with empty text by U1 each
\* issue exactly one call after the acknowledgment, a PostMessage whose
\* content contains "U1".
C8_OneReplyNamingUser ==
    \A i \in Invocations :
        \A h \in {"/hello", "/ping", "/help"} :
            EmptyCommandDone(i, h) =>
                LET after == Tail(calls[i])
                IN  /\ Len(after) = 1
                    /\ ActionKind(after[1]) = "PostMessage"
                    /\ CallContains(after[1], U1)

\* C8 as amended: invoked with empty text by U1, /ping issues exactly one call
\* after the acknowledgment, a PostMessage whose content contains "U1"; /help
\* issues exactly one, a PostMessage whose fixed content does not contain
\* "U1"; /hello first issues the users.info lookup of U1 and then one or two
\* PostMessages, the first of which is the greeting by the looked-up name when
\* the lookup succeeded.
C8_RepliesPerCommand ==
    \A i \in Invocations :
        LET after == Tail(calls[i])
        IN  /\ EmptyCommandDone(i, "/ping") =>
                  /\ Len(after) = 1
                  /\ ActionKind(after[1]) = "PostMessage"
                  /\ CallContains(after[1], U1)
            /\ EmptyCommandDone(i, "/help") =>
                  /\ Len(after) = 1
                  /\ ActionKind(after[1]) = "PostMessage"
                  /\ after[1].blocks = HelpBlocks
                  /\ ~CallContains(after[1], U1)
            /\ EmptyCommandDone(i, "/hello") =>
                  /\ Len(after) \in {2, 3}
                  /\ after[1].api = "users.info"
                  /\ after[1].user = U1
                  /\ \A k \in 2..Len(after) : ActionKind(after[k]) = "PostMessage"
                  /\ after[1].result = "ok" =>
                        after[2].blocks[1].text =
                            HelloGreeting(
                                OrElse(local[i].real_name, OrElse(local[i].name, There)))

\* C8 witness: /hello with empty text by U1 has greeted the user by name.
C8_Witness ==
    \E i \in Invocations :
        /\ EmptyCommandDone(i, "/hello")
        /\ Len(calls[i]) = 3
        /\ calls[i][2].result = "ok"
        /\ Truthy(local[i].real_name)
        /\ CallContains(calls[i][3], local[i].real_name)
        /\ ~CallContains(calls[i][3], U1)

\* The text "@bot status".
AtBotStatus ==
    <<"@", "b", "o", "t", " ", "s", "t", "a", "t", "u", "s">>

OnlineText ==
    <<"o", "n", "l", "i", "n", "e">>

\* The markup that mentions a user in a message.
MentionOf(user) ==
    <<"<", "@">> \o user \o <<">">>

\* The mention "@bot status" from U2.
StatusMention(i) ==
    /\ handler[i] = "app_mention"
    /\ event[i].text = AtBotStatus
    /\ event[i].user = U2

\* C9: for the mention "@bot status" from user U2, appMentionEvent posts one
\* reply, whose text contains "online" and mentions U2.
C9_StatusReply ==
    \A i \in Invocations :
        (StatusMention(i) /\ pc[i] # "start") =>
            /\ Len(calls[i]) = 1
            /\ calls[i][1].api = "say"
            /\ Includes(calls[i][1].text, OnlineText)
            /\ Includes(calls[i][1].text, MentionOf(U2))

\* C9 witness: the handler returned after replying to "@bot status" from U2.
C9_Witness ==
    \E i \in Invocations :
        /\ StatusMention(i)
        /\ status[i] = "returned"
        /\ calls[i][1].result = "ok"

\* The position of the first failed call of invocation i, 0 if none failed.
FirstFailure(i) ==
    IF \E k \in 1..Len(calls[i]) : calls[i][k].result = "error"
    THEN CHOOSE k \in 1..Len(calls[i]) :
            /\ calls[i][k].result = "error"
            /\ \A j \in 1..(k - 1) : calls[i][j].result # "error"
    ELSE 0

\* The user-facing messages issued after the first failed call.
NoticesAfterFailure(i) ==
    {k \in (FirstFailure(i) + 1)..Len(calls[i]) :
        ActionKind(calls[i][k]) \in {"PostMessage", "PostEphemeral"}}

\* C10: when an external call fails inside a command, action or shortcut
\* handler, the handler has logged the failure and attempted exactly one
\* user-facing error notice by the time it ends.
C10_FailureLoggedAndNoticed ==
    \A i \in Invocations :
        ( /\ handler[i] \in RequestHandlers
          /\ Done(i)
          /\ FirstFailure(i) # 0 )
        => /\ Len(logs[i]) >= 1
           /\ Cardinality(NoticesAfterFailure(i)) = 1

\* The handlers of events nobody is waiting on an answer to.
PassiveHandlers ==
    {"message", "app_mention", "member_joined_channel"}

\* C11: when an external call fails inside messageEvent, appMentionEvent or
\* memberJoinedChannelEvent, the failed call is the last call the handler
\* issues (no further outbound action, no notice to the user), the failure is
\* logged once, and the handler returns without raising.
C11_PassiveFailureSwallowed ==
    \A i \in Invocations :
        (handler[i] \in PassiveHandlers /\ FirstFailure(i) # 0) =>
            /\ FirstFailure(i) = Len(calls[i])
            /\ status[i] = "returned"
            /\ NoticesAfterFailure(i) = {}
            /\ Len(logs[i]) = 1

\* C11 witness: messageEvent returned after its first reaction failed.
C11_Witness ==
    \E i \in Invocations :
        /\ handler[i] = "message"
        /\ status[i] = "returned"
        /\ Len(calls[i]) = 2
        /\ calls[i][2].api = "reactions.add"
        /\ calls[i][2].result = "error"
        /\ Len(logs[i]) = 1

\* C12: no failure of an external call propagates out of a handler: no
\* handler's promise ever rejects, the say of pingCommand and helpCommand and
\* the fallback say of helloCommand's catch included.
C12_NoFailureEscapes ==
    \A i \in Invocations : status[i] # "rejected"

\* Call c with its outcome disregarded: its destination and payload.
Request(c) ==
    [c EXCEPT !.result = "pending"]

\* C13: within one invocation no outbound action is issued twice: no two of
\* its outbound calls have the same destination and payload, so in particular
\* a failed call is never retried.
C13_NoActionTwice ==
    \A i \in Invocations :
        LET out == Outbound(calls[i])
        IN  \A j, k \in 1..Len(out) :
                j < k => Request(out[j]) # Request(out[k])

\* C13 witness: helloCommand ended after its greeting failed and it said sorry,
\* two say calls in one invocation.
C13_Witness ==
    \E i \in Invocations :
        /\ handler[i] = "/hello"
        /\ Done(i)
        /\ Len(Outbound(calls[i])) = 2
        /\ calls[i][3].api = "say"
        /\ calls[i][3].result = "error"
        /\ calls[i][4].api = "say"

\* C14: when a mandatory token is missing from the environment the process
\* never runs: it is still starting up or has exited with a failure status;
\* and when app.start() has failed the process has exited with a failure
\* status.  In both cases "Slack bot is running!" was never logged and no
\* event was dispatched.
C14_StartupFailureIsFatal ==
    LET tokenMissing == \E t \in {"SLACK_BOT_TOKEN", "SLACK_APP_TOKEN"} :
                            t \notin env
        startFailed  == \E k \in 1..Len(proc.console) :
                            proc.console[k] = "Unable to start App"
        neverRan     == /\ \A k \in 1..Len(proc.console) :
                              proc.console[k] # "Slack bot is running!"
                        /\ \A i \in Invocations : handler[i] = "idle"
    IN  /\ tokenMissing =>
              /\ proc.state \in {"loading", "starting", "exited"}
              /\ proc.state = "exited" => proc.exitCode = 1
              /\ neverRan
        /\ startFailed =>
              /\ proc.state = "exited"
              /\ proc.exitCode = 1
              /\ neverRan

\* C14 witness: without SLACK_APP_TOKEN, app.start() failed and the process
\* exited with status 1.
C14_Witness ==
    /\ "SLACK_APP_TOKEN" \notin env
    /\ proc.state = "exited"
    /\ proc.exitCode = 1
    /\ proc.console = <<"Unable to start App">>

\* C15: the modal the create_task shortcut opens carries a callback_id under
\* which a submission handler is registered, so that the submit of the modal
\* is routed back to a handler and the workflow can leave AwaitingStep1Submit.
C15_SubmissionHandlerRegistered ==
    \A i \in Invocations :
        handler[i] = "create_task" =>
            \A k \in 1..Len(calls[i]) :
                (calls[i][k].api = "views.open" /\ calls[i][k].result = "ok") =>
                    calls[i][k].view.callback_id \in ViewHandlers

\* The external calls of invocations i and j settled alike: as far as both
\* issued calls, the k-th call of the one had the outcome of the k-th call of
\* the other.
SettledAlike(i, j) ==
    \A k \in 1..Len(calls[i]) :
        k <= Len(calls[j]) => calls[i][k].result = calls[j][k].result

\* The calls of invocation i with their outcomes disregarded.
Requests(i) ==
    [k \in 1..Len(calls[i]) |-> Request(calls[i][k])]

\* Two invocations of one handler for the same event.
SameEvent(i, j) ==
    /\ handler[i] = handler[j]
    /\ handler[i] # "idle"
    /\ event[i] = event[j]

KindsAndDestinations(i) ==
    LET out == Outbound(calls[i])
    IN  [k \in 1..Len(out) |-> <<ActionKind(out[k]), out[k].channel>>]

\* Two invocations of one handler for events that differ at most in the case
\* of the letters of their text.
SameButCase(i, j) ==
    /\ handler[i] = handler[j]
    /\ handler[i] \in {"message", "app_mention"}
    /\ [event[i] EXCEPT !.text = ToLowerCase(@)] =
       [event[j] EXCEPT !.text = ToLowerCase(@)]

\* C19 as stated: for two events that differ only in the letter case of their
\* text, messageEvent and appMentionEvent end with the same sequence of
\* outbound action kinds and destinations.
C19_SameActionsWhateverTheCase ==
    \A i, j \in Invocations :
        (SameButCase(i, j) /\ Done(i) /\ Done(j))
        => KindsAndDestinations(i) = KindsAndDestinations(j)

\* C19 as amended: for two events that differ only in the letter case of
\* their text, messageEvent and appMentionEvent, their external calls settling
\* alike, end with the same sequence of outbound action kinds and
\* destinations.
C19_CaseInsensitive ==
    \A i, j \in Invocations :
        (SameButCase(i, j) /\ Done(i) /\ Done(j) /\ SettledAlike(i, j))
        => KindsAndDestinations(i) = KindsAndDestinations(j)

\* C19 witness: "urgent" and "URGENT" in the same channel have both got the
\* two reactions.
C19_Witness ==
    /\ SameButCase(1, 2)
    /\ event[1].text = KwUrgent
    /\ event[2].text # KwUrgent
    /\ Done(1) /\ Done(2)
    /\ Len(KindsAndDestinations(1)) = 2
    /\ Len(KindsAndDestinations(2)) = 2
    /\ SettledAlike(1, 2)

\* C17: whenever users.info succeeded with a non-empty real_name R,
\* helloCommand has called ack and has called say with a blocks message in
\* which the text of some block contains R.
C17_GreetsByRealName ==
    \A i \in Invocations :
        ( /\ handler[i] = "/hello"
          /\ Len(calls[i]) >= 2
          /\ calls[i][2].api = "users.info"
          /\ calls[i][2].result = "ok"
          /\ Truthy(local[i].real_name) )
        => /\ calls[i][1].api = "ack"
           /\ Len(calls[i]) >= 3
           /\ calls[i][3].api = "say"
           /\ \E k \in 1..Len(calls[i][3].blocks) :
                 /\ calls[i][3].blocks[k].text # Undefined
                 /\ Includes(calls[i][3].blocks[k].text, local[i].real_name)

\* C17 witness: helloCommand returned after greeting a user whose real_name
\* and name are both set.
C17_Witness ==
    \E i \in Invocations :
        /\ handler[i] = "/hello"
        /\ status[i] = "returned"
        /\ Len(calls[i]) = 3
        /\ calls[i][3].result = "ok"
        /\ Truthy(local[i].real_name)
        /\ Truthy(local[i].name)

\* The text contains the keyword, in whatever case.
Mentions(ev, keyword) ==
    Includes(ToLowerCase(ev.text), keyword)

\* C18: appMentionEvent attempts exactly one reply, chosen by the first
\* matching keyword in the order help, status, thank, and the default reply
\* when none matches; a text with several keywords gets the reply of the
\* earliest of them in that order only.
C18_FirstMatchReply ==
    \A i \in Invocations :
        (handler[i] = "app_mention" /\ pc[i] # "start") =>
            LET ev == event[i]
                help == Mentions(ev, KwHelp)
                stat == Mentions(ev, KwStatus)
                thank == Mentions(ev, KwThank)
            IN  /\ Len(calls[i]) = 1
                /\ calls[i][1].api = "say"
                /\ calls[i][1].channel = ev.channel
                /\ help => calls[i][1].text = MentionHelp(ev.user)
                /\ (~help /\ stat) => calls[i][1].text = MentionStatus(ev.user)
                /\ (~help /\ ~stat /\ thank) =>
                       calls[i][1].text = MentionThanks(ev.user)
                /\ (~help /\ ~stat /\ ~thank) =>
                       calls[i][1].text = MentionDefault(ev.user)

\* C18 witness: the mention "status help" got the help reply.
C18_Witness ==
    \E i \in Invocations :
        /\ handler[i] = "app_mention"
        /\ event[i].text = JoinWords(<<KwStatus, KwHelp>>)
        /\ status[i] = "returned"
        /\ calls[i][1].result = "ok"
        /\ calls[i][1].text = MentionHelp(event[i].user)

\* C20: a Message event with no text field or with empty text is silently
\* ignored: messageEvent issues no external call at all, logs nothing and
\* returns without an error.
C20_NoTextIgnored ==
    \A i \in Invocations :
        (handler[i] = "message" /\ ~Truthy(event[i].text)) =>
            /\ calls[i] = <<>>
            /\ logs[i] = <<>>
            /\ status[i] # "rejected"
            /\ pc[i] # "start" => status[i] = "returned"

\* C20 witness: messageEvent returned for a message from a user, without
\* subtype, that has no text field.
C20_Witness ==
    \E i \in Invocations :
        /\ handler[i] = "message"
        /\ event[i].text = Undefined
        /\ ~TruthyId(event[i].subtype)
        /\ ~TruthyId(event[i].bot_id)
        /\ status[i] = "returned"

\* Invocation i has been dispatched and has not ended.
InFlight(i) ==
    handler[i] # "idle" /\ ~Done(i)

\* C21: every dispatched invocation terminates provided each call it awaits
\* settles: while it has not ended some step of it is enabled (it waits for
\* nothing but the call it awaits), it has issued at most four calls, and
\* every step it takes either ends it or issues one more call, so that no
\* handler loops.
C21_HandlersTerminate ==
    /\ [](\A i \in Invocations :
            InFlight(i) => (ENABLED Next /\ Len(calls[i]) <= 4))
    /\ [][\A i \in Invocations :
            InFlight(i) =>
                \/ Done(i)'
                \/ Len(calls'[i]) > Len(calls[i])]_vars

\* C21 witness: channelInfoAction ended after its four calls.
C21_Witness ==
    \E i \in Invocations :
        /\ handler[i] = "channel_info"
        /\ status[i] = "returned"
        /\ Len(calls[i]) = 4
        /\ calls[i][4].result = "ok"

\* The destination identifiers of call c are those of event ev, where c
\* carries any.
OwnDestinations(c, ev) ==
    /\ c.channel \in {Undefined, ev.channel}
    /\ c.user \in {Undefined, ev.user}
    /\ c.thread_ts \in {"", ev.ts}
    /\ c.timestamp \in {"", ev.ts}
    /\ c.trigger_id \in {"", ev.trigger_id}

\* The calls messageEvent or appMentionEvent issues for event ev when it runs
\* alone and no call fails.
LoneCalls(h, ev) ==
    IF h = "app_mention"
    THEN << SayCall(ev, MentionResponse(ev), <<>>, ev.ts) >>
    ELSE << ConversationsInfoCall(ev.channel) >>
         \o ( IF ev.channel_type = "im"
              THEN IF DmReply(ev) # Undefined
                   THEN << SayCall(ev, DmReply(ev), <<>>, ev.ts) >>
                   ELSE << >>
              ELSE IF HasKeyword(ev.text)
                   THEN << ReactionsAddCall(ev.channel, "eyes", ev.ts),
                           ReactionsAddCall(ev.channel, "warning", ev.ts) >>
                   ELSE << >> )

\* Invocation i has issued what it issues alone: the calls of LoneCalls up to
\* the first failed one, all of them once it has ended without a failure.
AsWhenAlone(i) ==
    LET lone == LoneCalls(handler[i], event[i])
    IN  /\ Len(calls[i]) <= Len(lone)
        /\ Requests(i) = SubSeq(lone, 1, Len(calls[i]))
        /\ (Done(i) /\ FirstFailure(i) = 0) => Len(calls[i]) = Len(lone)
        /\ FirstFailure(i) \in {0, Len(calls[i])}

\* The part of the state that belongs to invocation i.
Own(i) ==
    <<handler[i], event[i], pc[i], local[i], calls[i], logs[i], status[i]>>

FollowUps(i) ==
    SubSeq(calls[i], 3, Len(calls[i]))

\* The first element of the success notice and of the failure notice.
NoticeMark(c) ==
    IF c.text = Undefined \/ c.text = <<>> THEN "" ELSE c.text[1]

\* C23 as stated: the follow-up is not ordered after the acknowledgment: it
\* can be issued while the acknowledgment is still outstanding.
C23_FollowUpUnordered ==
    \A i \in Invocations :
        (handler[i] = "longRunningCommand" /\ pc[i] \in {"start", "ack"}) =>
            ENABLED LongBackgroundSettles(i)

\* C23 as amended: the follow-up is ordered after the acknowledgment: when a
\* follow-up has been issued, ack() and the start notice were issued before
\* it, in that order, and both had resolved, and the handler had returned.
C23_FollowUpAfterAck ==
    \A i \in Invocations :
        (handler[i] = "longRunningCommand" /\
         \E k \in 1..Len(calls[i]) : NoticeMark(calls[i][k]) \in
                                         {":white_check_mark:", ":x:"}) =>
            /\ Len(calls[i]) >= 3
            /\ calls[i][1].api = "ack" /\ calls[i][1].result = "ok"
            /\ calls[i][2].api = "say" /\ calls[i][2].result = "ok"
            /\ NoticeMark(calls[i][2]) = ":processing-starts:"
            /\ status[i] = "returned"

\* C23 witness: the success notice has been issued and has not settled yet.
C23_Witness ==
    \E i \in Invocations :
        /\ handler[i] = "longRunningCommand"
        /\ pc[i] = "follow-up"
        /\ NoticeMark(calls[i][3]) = ":white_check_mark:"

\* C24: the handler has returned by the time the background work is under
\* way; the work's settling is followed at once by the follow-up; and once it
\* has settled there is exactly one follow-up, the success notice if the work
\* succeeded and the failure notice if it failed.
C24_OneFollowUp ==
    \A i \in Invocations :
        handler[i] = "longRunningCommand" =>
            /\ pc[i] = "processInBackground" =>
                  /\ status[i] = "returned"
                  /\ FollowUps(i) = <<>>
                  /\ ENABLED LongBackgroundSettles(i)
            /\ local[i].background = "none" => FollowUps(i) = <<>>
            /\ local[i].background # "none" =>
                  /\ Len(FollowUps(i)) = 1
                  /\ FollowUps(i)[1].api = "say"
                  /\ FollowUps(i)[1].channel = event[i].channel
                  /\ NoticeMark(FollowUps(i)[1]) =
                        IF local[i].background = "resolved"
                        THEN ":white_check_mark:" ELSE ":x:"

\* C24 witness: one invocation has returned while its background work is
\* still under way, the other has reported the failure of its work.
C24_Witness ==
    \E i, j \in Invocations :
        /\ pc[i] = "processInBackground"
        /\ status[i] = "returned"
        /\ pc[j] = "done"
        /\ local[j].background = "rejected"
        /\ NoticeMark(calls[j][3]) = ":x:"

IsEcho(i) ==
    /\ handler[i] = "message"
    /\ event[i].bot_id = OwnBotId

\* The number of outbound actions of all invocations together.
RECURSIVE TotalOutbound(_)
TotalOutbound(is) ==
    IF is = {} THEN 0
    ELSE LET i == CHOOSE x \in is : TRUE
         IN  Len(Outbound(calls[i])) + TotalOutbound(is \ {i})

\* C26: the echo of a message the bot posted (a direct-message reply, a
\* mention reply, a welcome message) makes messageEvent issue no call at all,
\* so that one event caused by a person leads to at most two outbound
\* actions in total.
C26_NoReplyLoop ==
    /\ \A i \in Invocations :
          IsEcho(i) => (calls[i] = <<>> /\ logs[i] = <<>>)
    /\ TotalOutbound(Invocations) <= 2

\* C26 witness: the greeting the bot posted in a direct message came back as
\* a message event, and messageEvent returned.
C26_Witness ==
    \E i, j \in Invocations :
        /\ handler[j] = "message"
        /\ event[j].channel = D1
        /\ Len(calls[j]) = 2
        /\ calls[j][2].text = DmGreeting(event[j].user)
        /\ IsEcho(i)
        /\ event[i] = EchoOf(calls[j][2])
        /\ status[i] = "returned"

\* C27: memberJoinedChannelEvent looks up the user, then the channel, then
\* posts one welcome message to the channel of the event: the channel lookup
\* is issued only after the user lookup succeeded, the message only after
\* the channel lookup succeeded and as soon as it has, and nothing follows
\* the message.
C27_WelcomeAfterLookups ==
    \A i \in Invocations :
        (handler[i] = "member_joined_channel" /\ pc[i] # "start") =>
            LET cs == calls[i]
            IN  /\ Len(cs) \in 1..3
                /\ cs[1].api = "users.info" /\ cs[1].user = event[i].user
                /\ Len(cs) >= 2 =>
                      /\ cs[1].result = "ok"
                      /\ cs[2].api = "conversations.info"
                      /\ cs[2].channel = event[i].channel
                /\ Len(cs) = 3 =>
                      /\ cs[2].result = "ok"
                      /\ cs[3].api = "chat.postMessage"
                      /\ cs[3].channel = event[i].channel
                /\ cs[1].result = "ok" => Len(cs) >= 2
                /\ (Len(cs) >= 2 /\ cs[2].result = "ok") => Len(cs) = 3
                /\ Len(CallsTo(i, "chat.postMessage")) <= 1

\* C27 witness: the handler returned after the two lookups and the welcome
\* message succeeded.
C27_Witness ==
    \E i \in Invocations :
        /\ handler[i] = "member_joined_channel"
        /\ status[i] = "returned"
        /\ Len(calls[i]) = 3
        /\ calls[i][3].result = "ok"

\* The action_ids of the buttons in the blocks of call c.
ButtonActionIds(c) ==
    UNION { {c.blocks[k].elements[j].action_id :
                j \in {e \in 1..Len(c.blocks[k].elements) :
                          c.blocks[k].elements[e].type = "button"}} :
            k \in 1..Len(c.blocks) }

\* C28: by the time app.start() is called the commands, events, actions and
\* shortcuts are registered: the nine keys, each with exactly one listener;
\* only registered listeners are invoked; and every action_id the bot puts on
\* a button of a message it posts has a registered action listener.
C28_RoutingComplete ==
    /\ proc.state \in {"starting", "running"} =>
          /\ {r.key : r \in proc.registered} = Handlers
          /\ {r.kind : r \in proc.registered} =
                {"command", "event", "action", "shortcut"}
          /\ \A r1, r2 \in proc.registered : r1.key = r2.key => r1 = r2
    /\ \A i \in Invocations :
          /\ handler[i] # "idle" =>
                \E r \in proc.registered : r.key = handler[i]
          /\ \A k \in 1..Len(calls[i]) :
                \A a \in ButtonActionIds(calls[i][k]) :
                    \E r \in proc.registered : r.kind = "action" /\ r.key = a

\* C28 witness: the welcome message with its two buttons has been posted.
C28_Witness ==
    \E i \in Invocations :
        /\ handler[i] = "member_joined_channel"
        /\ Len(calls[i]) = 3
        /\ ButtonActionIds(calls[i][3]) = {"channel_info", "view_help"}
        /\ calls[i][3].result = "ok"

\* C29: channelInfoAction issues ack, conversations.info,
\* conversations.members and chat.postEphemeral in this order, each after the
\* one before it succeeded, the three platform calls against one channel
\* identifier, the button's value if it is non-empty and the channel of the
\* interaction otherwise; the ephemeral message is addressed to the user who
\* clicked, and it is sent exactly when both lookups succeeded.
C29_ChannelInfoOrder ==
    \A i \in Invocations :
        (handler[i] = "channel_info" /\ pc[i] # "start") =>
            LET cs == calls[i]
                ev == event[i]
                ch == IF ev.value # Undefined /\ ev.value # EmptyText
                      THEN ev.value ELSE ev.channel
            IN  /\ Len(cs) \in 1..4
                /\ cs[1].api = "ack"
                /\ Len(cs) >= 2 =>
                      /\ cs[1].result = "ok"
                      /\ cs[2].api = "conversations.info"
                      /\ cs[2].channel = ch
                /\ Len(cs) >= 3 =>
                      /\ cs[2].result = "ok"
                      /\ cs[3].api = "conversations.members"
                      /\ cs[3].channel = ch
                /\ Len(cs) = 4 =>
                      /\ cs[3].result = "ok"
                      /\ cs[4].api = "chat.postEphemeral"
                      /\ cs[4].channel = ch
                      /\ cs[4].user = ev.user
                /\ (Len(cs) >= 3 /\ cs[3].result = "ok") => Len(cs) = 4

\* C29 witness: a click in D1 on a button whose value is C1 ended with the
\* ephemeral message sent.
C29_Witness ==
    \E i \in Invocations :
        /\ handler[i] = "channel_info"
        /\ event[i].value = C1
        /\ event[i].channel = D1
        /\ status[i] = "returned"
        /\ Len(calls[i]) = 4
        /\ calls[i][4].result = "ok"
        /\ calls[i][4].channel = C1

\* The positions of the say calls of invocation i.
SaysOf(i) ==
    {k \in 1..Len(calls[i]) : calls[i][k].api = "say"}

\* C30: helloCommand has sent the fallback apology exactly when users.info or
\* the greeting say failed; when both succeeded it issued exactly one say;
\* when users.info failed it never attempted the greeting; it never issues
\* more than two say calls; and the greeting names real_name if that is
\* non-empty, else name if that is non-empty, else 'there'.
C30_HelloFallback ==
    \A i \in Invocations :
        handler[i] = "/hello" =>
            LET cs        == calls[i]
                greetings == {k \in SaysOf(i) : cs[k].blocks # <<>>}
                apologies == {k \in SaysOf(i) : cs[k].text = HelloSorry}
                infoFailed == Len(cs) >= 2 /\ cs[2].result = "error"
                infoOk     == Len(cs) >= 2 /\ cs[2].result = "ok"
                greetFailed == \E k \in greetings : cs[k].result = "error"
                greetOk     == \E k \in greetings : cs[k].result = "ok"
                greeted ==
                    IF local[i].real_name \notin {Undefined, EmptyText}
                    THEN local[i].real_name
                    ELSE IF local[i].name \notin {Undefined, EmptyText}
                         THEN local[i].name
                         ELSE <<"t", "h", "e", "r", "e">>
            IN  /\ Len(cs) >= 2 => cs[2].api = "users.info"
                /\ SaysOf(i) = greetings \cup apologies
                /\ (apologies # {}) <=> (infoFailed \/ greetFailed)
                /\ (infoOk /\ greetOk) => Cardinality(SaysOf(i)) = 1
                /\ infoFailed => greetings = {}
                /\ Cardinality(SaysOf(i)) <= 2
                /\ Cardinality(greetings) <= 1
                /\ Cardinality(apologies) <= 1
                /\ infoOk =>
                      /\ greetings = {3}
                      /\ cs[3].blocks[1].text =
                            <<"H", "e", "l", "l", "o", " ", "*">> \o greeted
                            \o <<"*", "!", " ", ":wave:">>

\* C30 witness: users.info gave a user with a name and no real_name, the
\* greeting say failed and the apology was sent as the second say.
C30_Witness ==
    \E i \in Invocations :
        /\ handler[i] = "/hello"
        /\ status[i] = "returned"
        /\ local[i].real_name = EmptyText
        /\ local[i].name = <<"a", "n", "n">>
        /\ Len(calls[i]) = 4
        /\ calls[i][3].result = "error"
        /\ calls[i][4].text = HelloSorry
        /\ calls[i][4].result = "ok"

====
